---- MODULE Spec2Model ----
(***************************************************************************)
(* The web3.storage driver of livepeer/go-tools (package drivers): the     *)
(* per-publication directory DAG (rootCar), the registry dataToPublish,    *)
(* SaveData / addFile and Publish / storeDir.                              *)
(*                                                                         *)
(* A content id is modelled by the canonical encoding it is the hash of,   *)
(* so two nodes have the same id exactly when their encodings are equal.   *)
(* A directory node's encoding is its link table sorted by name (stable),  *)
(* every link carrying name, Tsize and target id, as dag-pb encodes it.    *)
(* A file id is the one-link table FileCid(k), whose link name "#" is no   *)
(* path character, so file ids and directory ids never coincide.           *)
(***************************************************************************)
EXTENDS Integers, Sequences, FiniteSets, TLC

\* ------------------------------------------------------------------ bounds

\* Total number of SaveData / Publish calls started in one behaviour.
MaxOps == 3

Threads == {"t1", "t2"}
PubIds == {"p"}

\* The pubIds of the drivers where two publications are followed at once, and
\* the dirPaths and file names of their drivers and calls.
Campaigns == {"p", "q"}
IsoDirPaths == { <<>>, <<"a", "/", "a">> }
IsoNames == { <<"f">> }

\* Bytes of path characters in byte order ('/' < 'a' < 'b' < 'f' < 'g').
Alphabet == <<"/", "a", "b", "f", "g">>

\* The dirPath strings drivers are built with (sequences of characters).
DirPaths ==
    { <<>>,
      <<"/">>,
      <<"a", "/", "a">>,
      <<"/", "b", "/", "/", "a", "/">> }

\* File names passed to SaveData; <<"a">> is also a directory name.
FileNames == { <<"f">>, <<"a">> }

\* Indices of distinct file contents: FileCid(k) is the id ipfs-car reports.
FileContents == {1, 2}

NoThread == "none"
NoCar == 0

\* ------------------------------------------------------- content addressing

CharRank(c) == CHOOSE i \in 1..Len(Alphabet) : Alphabet[i] = c

\* Go's string comparison a < b (bytewise, a proper prefix is smaller).
RECURSIVE NameLess(_, _)
NameLess(a, b) ==
    IF b = <<>> THEN FALSE
    ELSE IF a = <<>> THEN TRUE
    ELSE IF CharRank(Head(a)) # CharRank(Head(b))
         THEN CharRank(Head(a)) < CharRank(Head(b))
         ELSE NameLess(Tail(a), Tail(b))

FileCid(k) == << [name |-> <<"#">>, size |-> k, cid |-> <<>>] >>

FileCids == { FileCid(k) : k \in FileContents }

IsFileCid(c) == Len(c) = 1 /\ c[1].name = <<"#">>

\* sort.Stable(LinkSlice(links)): l goes behind every link whose name is not
\* greater than its own.
RECURSIVE InsertLink(_, _)
InsertLink(sorted, l) ==
    IF sorted = <<>> THEN << l >>
    ELSE IF NameLess(l.name, Head(sorted).name)
         THEN << l >> \o sorted
         ELSE << Head(sorted) >> \o InsertLink(Tail(sorted), l)

RECURSIVE SortLinks(_)
SortLinks(links) ==
    IF links = <<>> THEN <<>>
    ELSE InsertLink(SortLinks(SubSeq(links, 1, Len(links) - 1)), links[Len(links)])

\* ProtoNode.Cid(): the hash of the encoding of the sorted link table.
Cid(links) == SortLinks(links)

RECURSIVE SumSizes(_)
SumSizes(links) ==
    IF links = <<>> THEN 0 ELSE Head(links).size + SumSizes(Tail(links))

\* ProtoNode.Size(): length of the encoding plus the Tsize of every link. The
\* encoding is counted as one unit for the node and one for each link.
NodeSize(links) == 1 + Len(links) + SumSizes(links)

\* unixfs.EmptyDirNode() with the CIDv1 builder.
newDir == <<>>

\* ProtoNode.AddRawLink(name, &format.Link{Cid: c}): append, no replacement.
AddRawLink(n, name, c, size) ==
    SortLinks(Append(n, [name |-> name, size |-> size, cid |-> c]))

\* ProtoNode.AddNodeLink(name, that): MakeLink(that) then AddRawLink.
AddNodeLink(n, name, that) == AddRawLink(n, name, Cid(that), NodeSize(that))

\* ProtoNode.RemoveNodeLink(name): drops every link of that name.
RemoveNodeLink(n, name) == SelectSeq(n, LAMBDA l : l.name # name)

\* ProtoNode.UpdateNodeLink(name, that): copy, remove, add.
UpdateNodeLink(n, name, that) == AddNodeLink(RemoveNodeLink(n, name), name, that)

HasLink(n, name) == \E i \in 1..Len(n) : n[i].name = name

\* ProtoNode.GetNodeLink(name): the first link of that name.
GetNodeLink(n, name) ==
    n[CHOOSE i \in 1..Len(n) :
        /\ n[i].name = name
        /\ \A j \in 1..(i - 1) : n[j].name # name]

\* The block service of a rootCar is the set of stored node encodings, keyed
\* by their ids. DagGet decodes the block stored under id c.
DagGet(c) == c

\* Entries of a string sequence.
Range(s) == { s[i] : i \in 1..Len(s) }

\* ------------------------------------------------------------ path splitting

\* strings.FieldsFunc(dirPath, c == '/'): the maximal runs of non-separator
\* characters; cur is the run being read, out the runs finished.
RECURSIVE Fields(_, _, _)
Fields(s, cur, out) ==
    IF s = <<>>
    THEN IF cur = <<>> THEN out ELSE Append(out, cur)
    ELSE IF Head(s) = "/"
         THEN Fields(Tail(s), <<>>, IF cur = <<>> THEN out ELSE Append(out, cur))
         ELSE Fields(Tail(s), Append(cur, Head(s)), out)

\* strings.Split(dirPath, "/"): every run between separators, empty ones too.
RECURSIVE SplitFields(_, _, _)
SplitFields(s, cur, out) ==
    IF s = <<>> THEN Append(out, cur)
    ELSE IF Head(s) = "/"
         THEN SplitFields(Tail(s), <<>>, Append(out, cur))
         ELSE SplitFields(Tail(s), Append(cur, Head(s)), out)

SplitKeepEmpty(dirPath) == SplitFields(dirPath, <<>>, <<>>)

FieldsFunc(dirPath) == Fields(dirPath, <<>>, <<>>)

\* ------------------------------------------------------------- tree building

\* cid.Parse(fileCid): ids printed by ipfs-car parse.
CidParses(c) == c \in FileCids

\* rootCar.getOrCreateChild. self is the receiver n after the call (AddNodeLink
\* mutates it in place when the child is created).
getOrCreateChild(n, dag, linkName) ==
    IF ~HasLink(n, linkName)
    THEN [err |-> FALSE, child |-> newDir, self |-> AddNodeLink(n, linkName, newDir)]
    ELSE LET l == GetNodeLink(n, linkName) IN
         IF l.cid \in dag
         THEN [err |-> FALSE, child |-> DagGet(l.cid), self |-> n]
         ELSE [err |-> TRUE, child |-> newDir, self |-> n]

\* rootCar.addFileToNode. node is the returned node, self the argument n as the
\* caller's pointer sees it afterwards, dag the block service afterwards.
RECURSIVE addFileToNode(_, _, _, _, _)
addFileToNode(n, dag, dirPaths, filename, fileCid) ==
    IF dirPaths = <<>>
    THEN IF ~CidParses(fileCid)
         THEN [err |-> TRUE, node |-> n, self |-> n, dag |-> dag]
         ELSE LET n2 == AddRawLink(n, filename, fileCid, 0) IN
              [err |-> FALSE, node |-> n2, self |-> n2, dag |-> dag \cup {Cid(n2)}]
    ELSE LET head == Head(dirPaths)
             tail == Tail(dirPaths)
             gc == getOrCreateChild(n, dag, head)
         IN  IF gc.err
             THEN [err |-> TRUE, node |-> n, self |-> gc.self, dag |-> dag]
             ELSE LET r == addFileToNode(gc.child, dag, tail, filename, fileCid) IN
                  IF r.err
                  THEN [err |-> TRUE, node |-> n, self |-> gc.self, dag |-> r.dag]
                  ELSE LET newN == UpdateNodeLink(gc.self, head, r.node) IN
                       [err |-> FALSE, node |-> newN, self |-> gc.self,
                        dag |-> (r.dag \ {Cid(gc.self)}) \cup {Cid(newN)}]

\* packCar + w3StoreCar of a file: the archive of the file's blocks; its id
\* (carCid) is the hash of the archive, modelled by the archive.
FileCar(fileCid) == [root |-> fileCid, blocks |-> << fileCid >>]

\* addFile without `rc.carCids = append(rc.carCids, carCid)`.
addFileNoCarCid(rc, dirPath, filename, fileCid, carCid) ==
    LET dirPaths == FieldsFunc(dirPath)
        r == addFileToNode(rc.root, rc.dag, dirPaths, filename, fileCid)
    IN  [err |-> r.err,
         rc |-> [rc EXCEPT !.root = IF r.err THEN r.self ELSE r.node,
                           !.dag = r.dag,
                           !.added = IF r.err THEN @
                                     ELSE Append(@, [dir |-> dirPaths, name |-> filename,
                                                     cid |-> fileCid]),
                           !.errs = @ \/ r.err]]

\* rootCar.addFile between Lock and Unlock. rc is the rootCar, the result the
\* rootCar afterwards and the error returned.
addFile(rc, dirPath, filename, fileCid, carCid) ==
    LET dirPaths == FieldsFunc(dirPath)
        r == addFileToNode(rc.root, rc.dag, dirPaths, filename, fileCid)
    IN  [err |-> r.err,
         rc |-> [rc EXCEPT !.carCids = Append(@, carCid),
                           !.root = IF r.err THEN r.self ELSE r.node,
                           !.dag = r.dag,
                           !.added = IF r.err THEN @
                                     ELSE Append(@, [dir |-> dirPaths, name |-> filename,
                                                     cid |-> fileCid]),
                           !.errs = @ \/ r.err]]

\* ---------------------------------------------------------------- archiving

\* car.WriteCar(dag, [root]): merkledag.Walk depth first from root, writing
\* every block it can fetch and stopping at the first link it cannot.
RECURSIVE Walk(_, _, _), WalkLinks(_, _, _)
Walk(dag, c, acc) ==
    IF acc.err \/ c \in Range(acc.blocks) THEN acc
    ELSE IF c \notin dag THEN [acc EXCEPT !.err = TRUE]
    ELSE WalkLinks(dag, DagGet(c), [acc EXCEPT !.blocks = Append(@, c)])

WalkLinks(dag, links, acc) ==
    IF links = <<>> THEN acc
    ELSE WalkLinks(dag, Tail(links), Walk(dag, Head(links).cid, acc))

WriteCar(dag, root) ==
    [root |-> root, blocks |-> Walk(dag, root, [err |-> FALSE, blocks |-> <<>>]).blocks]

NoLink == [name |-> <<>>, size |-> 0, cid |-> <<>>]

\* rootCar.storeDir. st = [dag, cars, budget, tmp, carFile]: the block
\* service, the archive ids appended to rc.carCids so far, the number of
\* w3StoreCar calls that still succeed, the temporary files that exist and the
\* one os.CreateTemp("", "car") makes. storeLinks is the loop over n.Links().
RECURSIVE storeDir(_, _, _), storeLinks(_, _)
storeLinks(links, st) ==
    IF links = <<>> THEN [err |-> FALSE, links |-> <<>>, st |-> st]
    ELSE LET l == Head(links) IN
         IF l.cid \notin st.dag
         THEN LET rest == storeLinks(Tail(links), st) IN
              [rest EXCEPT !.links = << l >> \o @]
         ELSE LET sub == storeDir(DagGet(l.cid), l.name, st) IN
              IF sub.err THEN [err |-> TRUE, links |-> <<>>, st |-> sub.st]
              ELSE LET rest == storeLinks(Tail(links), sub.st) IN
                   [rest EXCEPT !.links = << sub.link >> \o @]

storeDir(n, linkName, st) ==
    LET ls == storeLinks(SortLinks(n), st) IN
    IF ls.err THEN [err |-> TRUE, link |-> NoLink, st |-> ls.st]
    ELSE LET newN == SortLinks(ls.links)
             dag2 == (ls.st.dag \ {Cid(n)}) \cup {Cid(newN)}
             created == ls.st.tmp \cup {ls.st.carFile}
             deleted == created \ {ls.st.carFile}
         IN  IF ls.st.budget = 0
             THEN [err |-> TRUE, link |-> NoLink,
                   st |-> [ls.st EXCEPT !.dag = dag2, !.tmp = deleted]]
             ELSE [err |-> FALSE,
                   link |-> [name |-> linkName, size |-> 0, cid |-> Cid(newN)],
                   st |-> [ls.st EXCEPT !.dag = dag2,
                                        !.cars = Append(@, WriteCar(dag2, Cid(newN))),
                                        !.budget = @ - 1,
                                        !.tmp = deleted]]

\* -------------------------------------------------------------------- state

VARIABLES
    dataToPublish,  \* the registry: pubId -> rootCar (index into heap) or NoCar
    heap,           \* every rootCar allocated so far, by newRootCar order
    pc,             \* per goroutine: where it is in SaveData / Publish
    call,           \* per goroutine: the arguments of the call it is in
    rCar,           \* per goroutine: the local rCar (index into heap)
    local,          \* per goroutine: Publish's rootLink, carCids and outcome
    ret,            \* per goroutine: what its last call returned
    stored,         \* web3.storage: archives stored by `w3 can store add`
    uploads,        \* web3.storage: uploads bound by `w3 can upload add`
    nOps,           \* calls started so far
    mapWriter,      \* the goroutine inside an unlocked write of the registry map
    crashed,        \* the runtime has stopped the process (fatal error)
    tmpFiles,       \* the temporary files that exist: who created it, and what for
    dataToPublishMu,\* the goroutine holding the registry lock between two steps
    walk,           \* per goroutine: the frames of its storeDir calls, and their history
    sr,             \* SaveRetried: its position, arguments and locals
    prf,            \* ParallelReadFiles: its position, channels, workers and locals
    fs              \* the filesystem driver: its sessions, locks and callers

\* The state of the web3.storage driver, and that of the functions of
\* drivers.go and readerpool.go, which work on any OSSession.
driverVars == << dataToPublish, heap, pc, call, rCar, local, ret, stored, uploads, nOps,
                 mapWriter, crashed, tmpFiles, dataToPublishMu, walk >>
libVars == << sr, prf, fs >>
vars == << driverVars, libVars >>

\* Written only by the revision of getRootCar that releases dataToPublishMu
\* before it touches the map.
raceVars == << mapWriter, crashed >>

\* newRootCar(). added, errs and walked are history: the successful addFile
\* calls in lock order, whether an addFile call returned an error, and whether
\* storeDir has run on this rootCar.
newRootCar ==
    [root |-> newDir, dag |-> {}, carCids |-> <<>>, mu |-> NoThread,
     added |-> <<>>, errs |-> FALSE, walked |-> FALSE]

NoCall == [kind |-> "none", pubId |-> "", dirPath |-> <<>>, name |-> <<>>, fileCid |-> <<>>]
\* files, clean and dirCars are history: the rootCar's added and errs when
\* storeDir ran, and the archives storeDir stored. root is the c.root that
\* the Publish of drivers_test.go:471-490 passes to storeDirRecursively.
NoLocal ==
    [rootLink |-> NoLink, carCids |-> <<>>, outcome |-> "",
     files |-> <<>>, clean |-> TRUE, dirCars |-> <<>>, root |-> <<>>]
\* dirPath is history: the dirPath of the driver the call was made on.
NoRet == [kind |-> "none", err |-> FALSE, val |-> <<>>, dirPath |-> <<>>]

\* The files of os.CreateTemp: "w3s-raw" of toFile and "w3s-car" of packCar,
\* made in goroutine t's SaveData, and "car" of its storeDir.
RawFile(t) == [owner |-> t, kind |-> "w3s-raw"]
CarFile(t) == [owner |-> t, kind |-> "w3s-car"]
DirCarFile(t) == [owner |-> t, kind |-> "car"]

\* No storeDir call is in progress; log is history: the lookups and the
\* archive stores of the goroutine's last traversal, in order.
NoWalk == [stack |-> <<>>, log |-> <<>>]

\* SaveRetried and ParallelReadFiles have not been called.
NoSaveRetried == [pc |-> "idle"]
NoParallelRead == [pc |-> "idle"]

\* The paths sessions of the filesystem driver are opened for, and the most
\* FSSession objects ever allocated.
FsPaths == { "p", "q" }
MaxSessions == 3

\* No *FSSession: the nil GetSession returns, an absent key of FSOS.sessions.
NoSession == 0

\* What a goroutine is doing in the filesystem driver when it is in no call.
NoFsCall == [ pc |-> "idle", path |-> "", sess |-> NoSession, ret |-> NoSession ]

\* NewFSDriver(baseURI): an empty sessions map and a free lock. session is
\* every FSSession allocated so far; call is, per goroutine, the call it is
\* in and the session it holds.
NewFSDriver ==
    [ sessions |-> [ path \in FsPaths |-> NoSession ],
      lock     |-> NoThread,
      session  |-> << >>,
      call     |-> [ t \in Threads |-> NoFsCall ] ]

Init ==
    /\ dataToPublish = [p \in Campaigns |-> NoCar]
    /\ heap = <<>>
    /\ pc = [t \in Threads |-> "idle"]
    /\ call = [t \in Threads |-> NoCall]
    /\ rCar = [t \in Threads |-> NoCar]
    /\ local = [t \in Threads |-> NoLocal]
    /\ ret = [t \in Threads |-> NoRet]
    /\ stored = {}
    /\ uploads = {}
    /\ nOps = 0
    /\ mapWriter = NoThread
    /\ crashed = FALSE
    /\ tmpFiles = {}
    /\ dataToPublishMu = NoThread
    /\ walk = [t \in Threads |-> NoWalk]
    /\ sr = NoSaveRetried
    /\ prf = NoParallelRead
    /\ fs = NewFSDriver

\* ----------------------------------------------------------------- SaveData

\* W3sSession.SaveData when toFile, packCar or w3StoreCar fails: the error is
\* returned before getRootCar.
SaveDataFail(t) ==
    /\ pc[t] = "idle"
    /\ nOps < MaxOps
    /\ ret' = [ret EXCEPT ![t] = [kind |-> "SaveData", err |-> TRUE, val |-> <<>>,
                                  dirPath |-> <<>>]]
    /\ nOps' = nOps + 1
    /\ UNCHANGED << dataToPublish, heap, pc, call, rCar, local, stored, uploads >>
    /\ UNCHANGED raceVars
    /\ UNCHANGED tmpFiles
    /\ UNCHANGED dataToPublishMu
    /\ UNCHANGED walk
    /\ UNCHANGED libVars

\* getRootCar without `if _, ok := dataToPublish[ostore.pubId]; !ok`.
getRootCarAlwaysNew(t, p) ==
    /\ heap' = Append(heap, newRootCar)
    /\ dataToPublish' = [dataToPublish EXCEPT ![p] = Len(heap) + 1]
    /\ rCar' = [rCar EXCEPT ![t] = dataToPublish'[p]]

\* A registry with one entry for all pubIds: the lookup ignores the key.
getRootCarOneKey(t, p) ==
    LET reg == { q \in Campaigns : dataToPublish[q] # NoCar }
        k == IF reg = {} THEN p ELSE CHOOSE q \in reg : TRUE
    IN  /\ IF dataToPublish[k] = NoCar
           THEN /\ heap' = Append(heap, newRootCar)
                /\ dataToPublish' = [dataToPublish EXCEPT ![p] = Len(heap) + 1]
           ELSE /\ heap' = heap
                /\ dataToPublish' = [dataToPublish EXCEPT ![p] = dataToPublish[k]]
        /\ rCar' = [rCar EXCEPT ![t] = dataToPublish'[p]]

\* W3sOS.getRootCar, under dataToPublishMu from lookup to return.
getRootCar(t, p) ==
    /\ IF dataToPublish[p] = NoCar
       THEN /\ heap' = Append(heap, newRootCar)
            /\ dataToPublish' = [dataToPublish EXCEPT ![p] = Len(heap) + 1]
       ELSE UNCHANGED << heap, dataToPublish >>
    /\ rCar' = [rCar EXCEPT ![t] = dataToPublish'[p]]

\* W3sSession.SaveData from toFile to getRootCar, all succeeding: the file's
\* archive is stored, then the rootCar of the pubId is looked up or created.
SaveDataOn(t, pubIds, dirPaths, names) ==
    /\ pc[t] = "idle"
    /\ nOps < MaxOps
    /\ \E p \in pubIds, d \in dirPaths, f \in names, c \in FileCids :
         /\ call' = [call EXCEPT ![t] = [kind |-> "SaveData", pubId |-> p, dirPath |-> d,
                                         name |-> f, fileCid |-> c]]
         /\ stored' = stored \cup {FileCar(c)}
         /\ getRootCar(t, p)
    /\ pc' = [pc EXCEPT ![t] = "addFileLock"]
    /\ ret' = [ret EXCEPT ![t] = NoRet]
    /\ nOps' = nOps + 1
    /\ UNCHANGED << local, uploads >>
    /\ UNCHANGED raceVars
    /\ tmpFiles' = tmpFiles \cup {RawFile(t), CarFile(t)}
    /\ UNCHANGED dataToPublishMu
    /\ UNCHANGED walk
    /\ UNCHANGED libVars

SaveDataGetRootCar(t) == SaveDataOn(t, PubIds, DirPaths, FileNames)

\* rc.mu.Lock() of addFile.
AddFileLock(t) ==
    /\ pc[t] = "addFileLock"
    /\ heap[rCar[t]].mu = NoThread
    /\ heap' = [heap EXCEPT ![rCar[t]].mu = t]
    /\ pc' = [pc EXCEPT ![t] = "addFile"]
    /\ UNCHANGED << dataToPublish, call, rCar, local, ret, stored, uploads, nOps >>
    /\ UNCHANGED raceVars
    /\ UNCHANGED tmpFiles
    /\ UNCHANGED dataToPublishMu
    /\ UNCHANGED walk
    /\ UNCHANGED libVars

\* The body of addFile, its deferred Unlock, and SaveData's return.
AddFile(t) ==
    /\ pc[t] = "addFile"
    /\ LET r == addFile(heap[rCar[t]], call[t].dirPath, call[t].name, call[t].fileCid,
                        FileCar(call[t].fileCid))
       IN  /\ heap' = [heap EXCEPT ![rCar[t]] = [r.rc EXCEPT !.mu = NoThread]]
           /\ ret' = [ret EXCEPT ![t] = [kind |-> "SaveData", err |-> r.err,
                                         val |-> IF r.err THEN <<>> ELSE call[t].fileCid,
                                         dirPath |-> call[t].dirPath]]
    /\ pc' = [pc EXCEPT ![t] = "idle"]
    /\ call' = [call EXCEPT ![t] = NoCall]
    /\ rCar' = [rCar EXCEPT ![t] = NoCar]
    /\ UNCHANGED << dataToPublish, local, stored, uploads, nOps >>
    /\ UNCHANGED raceVars
    /\ tmpFiles' = tmpFiles \ {RawFile(t), CarFile(t)}
    /\ UNCHANGED dataToPublishMu
    /\ UNCHANGED walk
    /\ UNCHANGED libVars

\* ------------------------------------------------------------------ Publish

\* W3sOS.Publish: rCar := ostore.getRootCar().
PublishOn(t, pubIds) ==
    /\ pc[t] = "idle"
    /\ nOps < MaxOps
    /\ \E p \in pubIds :
         /\ call' = [call EXCEPT ![t] = [NoCall EXCEPT !.kind = "Publish", !.pubId = p]]
         /\ getRootCar(t, p)
    /\ pc' = [pc EXCEPT ![t] = "publishLock"]
    /\ ret' = [ret EXCEPT ![t] = NoRet]
    /\ nOps' = nOps + 1
    /\ UNCHANGED << local, stored, uploads >>
    /\ UNCHANGED raceVars
    /\ UNCHANGED tmpFiles
    /\ UNCHANGED dataToPublishMu
    /\ UNCHANGED walk
    /\ UNCHANGED libVars

PublishGetRootCar(t) == PublishOn(t, PubIds)

\* rCar.mu.Lock() of Publish.
PublishLock(t) ==
    /\ pc[t] = "publishLock"
    /\ heap[rCar[t]].mu = NoThread
    /\ heap' = [heap EXCEPT ![rCar[t]].mu = t]
    /\ pc' = [pc EXCEPT ![t] = "storeDir"]
    /\ UNCHANGED << dataToPublish, call, rCar, local, ret, stored, uploads, nOps >>
    /\ UNCHANGED raceVars
    /\ UNCHANGED tmpFiles
    /\ UNCHANGED dataToPublishMu
    /\ UNCHANGED walk
    /\ UNCHANGED libVars

\* Number of directories reachable from node n through the block service.
RECURSIVE CountDirs(_, _)
CountDirs(n, dag) ==
    IF n = <<>> THEN 1
    ELSE LET first == IF Head(n).cid \in dag THEN CountDirs(DagGet(Head(n).cid), dag) ELSE 0
         IN  first + CountDirs(Tail(n), dag)

\* rCar.storeDir(ctx, rCar.root, "") under rCar.mu; budget is the number of
\* w3StoreCar calls that succeed before one fails. On failure Publish returns
\* with rCar.mu still locked; on success it copies carCids and unlocks.
PublishStoreDir(t) ==
    /\ pc[t] = "storeDir"
    /\ LET rc == heap[rCar[t]] IN
       \E budget \in 0..CountDirs(rc.root, rc.dag) :
         LET r == storeDir(rc.root, <<>>, [dag |-> rc.dag, cars |-> <<>>, budget |-> budget,
                                           tmp |-> tmpFiles, carFile |-> DirCarFile(t)])
             rc2 == [rc EXCEPT !.dag = r.st.dag, !.carCids = @ \o r.st.cars, !.walked = TRUE]
         IN  /\ stored' = stored \cup Range(r.st.cars)
             /\ tmpFiles' = r.st.tmp
             /\ IF r.err
                THEN /\ heap' = [heap EXCEPT ![rCar[t]] = rc2]
                     /\ local' = [local EXCEPT ![t].outcome = "storeDirFailed"]
                     /\ pc' = [pc EXCEPT ![t] = "deleteRootCar"]
                ELSE /\ heap' = [heap EXCEPT ![rCar[t]] = [rc2 EXCEPT !.mu = NoThread]]
                     /\ local' = [local EXCEPT ![t] = [rootLink |-> r.link,
                                                       carCids |-> rc2.carCids,
                                                       outcome |-> "",
                                                       files |-> rc.added,
                                                       clean |-> ~rc.errs /\ ~rc.walked,
                                                       dirCars |-> r.st.cars,
                                                       root |-> <<>>]]
                     /\ pc' = [pc EXCEPT ![t] = "upload"]
    /\ UNCHANGED << dataToPublish, call, rCar, ret, uploads, nOps >>
    /\ UNCHANGED raceVars
    /\ UNCHANGED dataToPublishMu
    /\ UNCHANGED walk
    /\ UNCHANGED libVars

\* w3UploadCar(ctx, rootLink.Cid.String(), carCids): succeeds or fails.
PublishUpload(t) ==
    /\ pc[t] = "upload"
    /\ \/ /\ uploads' = uploads \cup {[root |-> local[t].rootLink.cid,
                                       shards |-> local[t].carCids,
                                       files |-> local[t].files,
                                       clean |-> local[t].clean,
                                       dirCars |-> local[t].dirCars]}
          /\ local' = [local EXCEPT ![t].outcome = "published"]
       \/ /\ local' = [local EXCEPT ![t].outcome = "uploadFailed"]
          /\ UNCHANGED uploads
    /\ pc' = [pc EXCEPT ![t] = "deleteRootCar"]
    /\ UNCHANGED << dataToPublish, heap, call, rCar, ret, stored, nOps >>
    /\ UNCHANGED raceVars
    /\ UNCHANGED tmpFiles
    /\ UNCHANGED dataToPublishMu
    /\ UNCHANGED walk
    /\ UNCHANGED libVars

\* The deferred ostore.deleteRootCar() and Publish's return: the URL of the
\* root with a nil error after an upload, "" with a nil error otherwise.
deleteRootCarAndReturn(t) ==
    /\ pc[t] = "deleteRootCar"
    /\ dataToPublish' = [dataToPublish EXCEPT ![call[t].pubId] = NoCar]
    /\ ret' = [ret EXCEPT ![t] = [kind |-> "Publish", err |-> FALSE,
                                  val |-> IF local[t].outcome = "published"
                                          THEN local[t].rootLink.cid ELSE <<>>,
                                  dirPath |-> <<>>]]
    /\ pc' = [pc EXCEPT ![t] = "idle"]
    /\ call' = [call EXCEPT ![t] = NoCall]
    /\ rCar' = [rCar EXCEPT ![t] = NoCar]
    /\ local' = [local EXCEPT ![t] = NoLocal]
    /\ UNCHANGED << heap, stored, uploads, nOps >>
    /\ UNCHANGED raceVars
    /\ UNCHANGED tmpFiles
    /\ UNCHANGED walk
    /\ UNCHANGED libVars

\* In one step: dataToPublishMu is taken and released within it.
PublishDeleteRootCar(t) ==
    /\ deleteRootCarAndReturn(t)
    /\ UNCHANGED dataToPublishMu

Next ==
    \E t \in Threads :
        \/ SaveDataFail(t)
        \/ SaveDataGetRootCar(t)
        \/ AddFileLock(t)
        \/ AddFile(t)
        \/ PublishGetRootCar(t)
        \/ PublishLock(t)
        \/ PublishStoreDir(t)
        \/ PublishUpload(t)
        \/ PublishDeleteRootCar(t)

Spec == Init /\ [][Next]_vars

\* ------------------------------------------ two publications side by side

IsoSaveData(t) == SaveDataOn(t, Campaigns, IsoDirPaths, IsoNames)

\* W3sSession.EndSession: no op.
EndSession(t) ==
    /\ pc[t] = "idle"
    /\ nOps < MaxOps
    /\ ret' = [ret EXCEPT ![t] = [NoRet EXCEPT !.kind = "EndSession"]]
    /\ nOps' = nOps + 1
    /\ UNCHANGED << dataToPublish, heap, pc, call, rCar, local, stored, uploads, raceVars,
                    tmpFiles, dataToPublishMu >>
    /\ UNCHANGED walk
    /\ UNCHANGED libVars

IsoPublish(t) == PublishOn(t, Campaigns)

NextIso ==
    \E t \in Threads :
        \/ SaveDataFail(t)
        \/ IsoSaveData(t)
        \/ AddFileLock(t)
        \/ AddFile(t)
        \/ IsoPublish(t)
        \/ EndSession(t)
        \/ PublishLock(t)
        \/ PublishStoreDir(t)
        \/ PublishUpload(t)
        \/ PublishDeleteRootCar(t)

SpecIso == Init /\ [][NextIso]_vars

\* ------------------------------------------- SaveData, temp file by temp file

\* SaveData returns err; call and rCar go with the frame.
SaveDataReturnsErr(t) ==
    /\ ret' = [ret EXCEPT ![t] = [kind |-> "SaveData", err |-> TRUE, val |-> <<>>,
                                  dirPath |-> call[t].dirPath]]
    /\ pc' = [pc EXCEPT ![t] = "idle"]
    /\ call' = [call EXCEPT ![t] = NoCall]

\* SaveData is called.
TmpSaveData(t) ==
    /\ pc[t] = "idle"
    /\ nOps < MaxOps
    /\ \E p \in PubIds, d \in IsoDirPaths, f \in IsoNames, c \in FileCids :
         call' = [call EXCEPT ![t] = [kind |-> "SaveData", pubId |-> p, dirPath |-> d,
                                      name |-> f, fileCid |-> c]]
    /\ pc' = [pc EXCEPT ![t] = "toFile"]
    /\ ret' = [ret EXCEPT ![t] = NoRet]
    /\ nOps' = nOps + 1
    /\ UNCHANGED << dataToPublish, heap, rCar, local, stored, uploads, raceVars, tmpFiles >>
    /\ UNCHANGED dataToPublishMu
    /\ UNCHANGED walk
    /\ UNCHANGED libVars

\* toFile: os.CreateTemp fails; or io.Copy fails and the file is deleted; or
\* the file is returned and SaveData defers deleteFile(filePath).
TmpToFile(t) ==
    /\ pc[t] = "toFile"
    /\ \/ /\ SaveDataReturnsErr(t)
          /\ UNCHANGED tmpFiles
       \/ /\ SaveDataReturnsErr(t)
          /\ tmpFiles' = (tmpFiles \cup {RawFile(t)}) \ {RawFile(t)}
       \/ /\ tmpFiles' = tmpFiles \cup {RawFile(t)}
          /\ pc' = [pc EXCEPT ![t] = "packCar"]
          /\ UNCHANGED << call, ret >>
    /\ UNCHANGED << dataToPublish, heap, rCar, local, stored, uploads, nOps, raceVars >>
    /\ UNCHANGED dataToPublishMu
    /\ UNCHANGED walk
    /\ UNCHANGED libVars

\* packCar without deleteFile(fCar.Name()) where ipfs-car has failed.
TmpPackCarKeepsFile(t) ==
    /\ pc[t] = "packCar"
    /\ \/ /\ SaveDataReturnsErr(t)
          /\ tmpFiles' = tmpFiles \ {RawFile(t)}
       \/ /\ SaveDataReturnsErr(t)
          /\ tmpFiles' = (tmpFiles \cup {CarFile(t)}) \ {RawFile(t)}
       \/ /\ tmpFiles' = tmpFiles \cup {CarFile(t)}
          /\ pc' = [pc EXCEPT ![t] = "storeCar"]
          /\ UNCHANGED << call, ret >>
    /\ UNCHANGED << dataToPublish, heap, rCar, local, stored, uploads, nOps, raceVars >>
    /\ UNCHANGED dataToPublishMu
    /\ UNCHANGED walk
    /\ UNCHANGED libVars

\* packCar: os.CreateTemp fails; or ipfs-car fails or prints no root CID and
\* the file is deleted; or the file is returned and SaveData defers
\* deleteFile(carPath). An error return runs the deferred deleteFile(filePath).
TmpPackCar(t) ==
    /\ pc[t] = "packCar"
    /\ \/ /\ SaveDataReturnsErr(t)
          /\ tmpFiles' = tmpFiles \ {RawFile(t)}
       \/ /\ SaveDataReturnsErr(t)
          /\ tmpFiles' = ((tmpFiles \cup {CarFile(t)}) \ {CarFile(t)}) \ {RawFile(t)}
       \/ /\ tmpFiles' = tmpFiles \cup {CarFile(t)}
          /\ pc' = [pc EXCEPT ![t] = "storeCar"]
          /\ UNCHANGED << call, ret >>
    /\ UNCHANGED << dataToPublish, heap, rCar, local, stored, uploads, nOps, raceVars >>
    /\ UNCHANGED dataToPublishMu
    /\ UNCHANGED walk
    /\ UNCHANGED libVars

\* SaveData with getRootCar called ahead of w3StoreCar.
TmpStoreCarAfterGetRootCar(t) ==
    /\ pc[t] = "storeCar"
    /\ \/ /\ SaveDataReturnsErr(t)
          /\ tmpFiles' = tmpFiles \ {CarFile(t), RawFile(t)}
          /\ getRootCar(t, call[t].pubId)
          /\ UNCHANGED stored
       \/ /\ stored' = stored \cup {FileCar(call[t].fileCid)}
          /\ getRootCar(t, call[t].pubId)
          /\ pc' = [pc EXCEPT ![t] = "addFileLock"]
          /\ UNCHANGED << call, ret, tmpFiles >>
    /\ UNCHANGED << local, uploads, nOps, raceVars >>
    /\ UNCHANGED dataToPublishMu
    /\ UNCHANGED walk
    /\ UNCHANGED libVars

\* w3StoreCar fails and both deferred deletes run; or it succeeds and
\* getRootCar follows.
TmpStoreCar(t) ==
    /\ pc[t] = "storeCar"
    /\ \/ /\ SaveDataReturnsErr(t)
          /\ tmpFiles' = tmpFiles \ {CarFile(t), RawFile(t)}
          /\ UNCHANGED << dataToPublish, heap, rCar, stored >>
       \/ /\ stored' = stored \cup {FileCar(call[t].fileCid)}
          /\ getRootCar(t, call[t].pubId)
          /\ pc' = [pc EXCEPT ![t] = "addFileLock"]
          /\ UNCHANGED << call, ret, tmpFiles >>
    /\ UNCHANGED << local, uploads, nOps, raceVars >>
    /\ UNCHANGED dataToPublishMu
    /\ UNCHANGED walk
    /\ UNCHANGED libVars

NextTmp ==
    \E t \in Threads :
        \/ TmpSaveData(t)
        \/ TmpToFile(t)
        \/ TmpPackCar(t)
        \/ TmpStoreCar(t)
        \/ AddFileLock(t)
        \/ AddFile(t)
        \/ PublishGetRootCar(t)
        \/ PublishLock(t)
        \/ PublishStoreDir(t)
        \/ PublishUpload(t)
        \/ PublishDeleteRootCar(t)

SpecTmp == Init /\ [][NextTmp]_vars

\* ------------------------------------------- dataToPublishMu, step by step

\* w3StoreCar of SaveData fails and both deferred deletes run; or it
\* succeeds and getRootCar is called.
LockStoreCar(t) ==
    /\ pc[t] = "storeCar"
    /\ \/ /\ SaveDataReturnsErr(t)
          /\ tmpFiles' = tmpFiles \ {CarFile(t), RawFile(t)}
          /\ UNCHANGED stored
       \/ /\ stored' = stored \cup {FileCar(call[t].fileCid)}
          /\ pc' = [pc EXCEPT ![t] = "getRootCarLock"]
          /\ UNCHANGED << call, ret, tmpFiles >>
    /\ UNCHANGED << dataToPublish, heap, rCar, local, uploads, nOps, raceVars,
                    dataToPublishMu >>
    /\ UNCHANGED walk
    /\ UNCHANGED libVars

\* Publish is called: getRootCar comes first.
LockPublish(t) ==
    /\ pc[t] = "idle"
    /\ nOps < MaxOps
    /\ \E p \in PubIds :
         call' = [call EXCEPT ![t] = [NoCall EXCEPT !.kind = "Publish", !.pubId = p]]
    /\ pc' = [pc EXCEPT ![t] = "getRootCarLock"]
    /\ ret' = [ret EXCEPT ![t] = NoRet]
    /\ nOps' = nOps + 1
    /\ UNCHANGED << dataToPublish, heap, rCar, local, stored, uploads, raceVars, tmpFiles,
                    dataToPublishMu >>
    /\ UNCHANGED walk
    /\ UNCHANGED libVars

\* dataToPublishMu.Lock() of getRootCar.
RegLock(t) ==
    /\ pc[t] = "getRootCarLock"
    /\ dataToPublishMu = NoThread
    /\ dataToPublishMu' = t
    /\ pc' = [pc EXCEPT ![t] = "getRootCar"]
    /\ UNCHANGED << dataToPublish, heap, call, rCar, local, ret, stored, uploads, nOps,
                    raceVars, tmpFiles >>
    /\ UNCHANGED walk
    /\ UNCHANGED libVars

\* getRootCar whose deferred Unlock() is missing.
RegGetRootCarKeepsLock(t) ==
    /\ pc[t] = "getRootCar"
    /\ dataToPublishMu = t
    /\ getRootCar(t, call[t].pubId)
    /\ pc' = [pc EXCEPT ![t] = IF call[t].kind = "Publish"
                               THEN "publishLock" ELSE "addFileLock"]
    /\ UNCHANGED << call, local, ret, stored, uploads, nOps, raceVars, tmpFiles,
                    dataToPublishMu >>
    /\ UNCHANGED walk
    /\ UNCHANGED libVars

\* The body of getRootCar and its deferred dataToPublishMu.Unlock().
RegGetRootCar(t) ==
    /\ pc[t] = "getRootCar"
    /\ dataToPublishMu = t
    /\ getRootCar(t, call[t].pubId)
    /\ dataToPublishMu' = NoThread
    /\ pc' = [pc EXCEPT ![t] = IF call[t].kind = "Publish"
                               THEN "publishLock" ELSE "addFileLock"]
    /\ UNCHANGED << call, local, ret, stored, uploads, nOps, raceVars, tmpFiles >>
    /\ UNCHANGED walk
    /\ UNCHANGED libVars

\* dataToPublishMu.Lock() of the deferred deleteRootCar.
RegDeleteLock(t) ==
    /\ pc[t] = "deleteRootCar"
    /\ dataToPublishMu = NoThread
    /\ dataToPublishMu' = t
    /\ UNCHANGED << dataToPublish, heap, pc, call, rCar, local, ret, stored, uploads, nOps,
                    raceVars, tmpFiles >>
    /\ UNCHANGED walk
    /\ UNCHANGED libVars

\* delete(dataToPublish, ostore.pubId), the deferred Unlock() and the return.
RegDelete(t) ==
    /\ dataToPublishMu = t
    /\ deleteRootCarAndReturn(t)
    /\ dataToPublishMu' = NoThread

NextLock ==
    \E t \in Threads :
        \/ TmpSaveData(t)
        \/ TmpToFile(t)
        \/ TmpPackCar(t)
        \/ LockStoreCar(t)
        \/ LockPublish(t)
        \/ RegLock(t)
        \/ RegGetRootCar(t)
        \/ AddFileLock(t)
        \/ AddFile(t)
        \/ PublishLock(t)
        \/ PublishStoreDir(t)
        \/ PublishUpload(t)
        \/ RegDeleteLock(t)
        \/ RegDelete(t)

SpecLock == Init /\ [][NextLock]_vars

\* ------------------------------------------ the unlocked getRootCar revision

\* The revision of getRootCar that calls dataToPublishMu.Lock() and Unlock()
\* back to back and only then looks up, inserts and reads the map. Two
\* goroutines in that code race on the map: the Go runtime stops the process
\* when an access overlaps a write, and otherwise the accesses interleave.

\* SaveData from toFile to w3StoreCar, then getRootCar's Lock(); Unlock().
RaceSaveData(t) ==
    /\ pc[t] = "idle"
    /\ nOps < MaxOps
    /\ \E p \in PubIds, d \in DirPaths, f \in FileNames, c \in FileCids :
         /\ call' = [call EXCEPT ![t] = [kind |-> "SaveData", pubId |-> p, dirPath |-> d,
                                         name |-> f, fileCid |-> c]]
         /\ stored' = stored \cup {FileCar(c)}
    /\ pc' = [pc EXCEPT ![t] = "lookup"]
    /\ ret' = [ret EXCEPT ![t] = NoRet]
    /\ nOps' = nOps + 1
    /\ UNCHANGED << dataToPublish, heap, rCar, local, uploads, raceVars >>
    /\ tmpFiles' = tmpFiles \cup {RawFile(t), CarFile(t)}
    /\ UNCHANGED dataToPublishMu
    /\ UNCHANGED walk
    /\ UNCHANGED libVars

\* _, ok := dataToPublish[ostore.pubId]
RaceLookup(t) ==
    /\ pc[t] = "lookup"
    /\ mapWriter = NoThread
    /\ pc' = [pc EXCEPT ![t] = IF dataToPublish[call[t].pubId] = NoCar
                               THEN "insert" ELSE "read"]
    /\ UNCHANGED << dataToPublish, heap, call, rCar, local, ret, stored, uploads, nOps,
                    raceVars >>
    /\ UNCHANGED tmpFiles
    /\ UNCHANGED dataToPublishMu
    /\ UNCHANGED walk
    /\ UNCHANGED libVars

\* dataToPublish[ostore.pubId] = newRootCar(): the map write begins.
RaceInsertBegin(t) ==
    /\ pc[t] = "insert"
    /\ mapWriter = NoThread
    /\ mapWriter' = t
    /\ heap' = Append(heap, newRootCar)
    /\ rCar' = [rCar EXCEPT ![t] = Len(heap) + 1]
    /\ pc' = [pc EXCEPT ![t] = "inserting"]
    /\ UNCHANGED << dataToPublish, call, local, ret, stored, uploads, nOps, crashed >>
    /\ UNCHANGED tmpFiles
    /\ UNCHANGED dataToPublishMu
    /\ UNCHANGED walk
    /\ UNCHANGED libVars

\* The map write ends: the entry of the pubId is set, whatever it was.
RaceInsertEnd(t) ==
    /\ pc[t] = "inserting"
    /\ mapWriter' = NoThread
    /\ dataToPublish' = [dataToPublish EXCEPT ![call[t].pubId] = rCar[t]]
    /\ pc' = [pc EXCEPT ![t] = "read"]
    /\ UNCHANGED << heap, call, rCar, local, ret, stored, uploads, nOps, crashed >>
    /\ UNCHANGED tmpFiles
    /\ UNCHANGED dataToPublishMu
    /\ UNCHANGED walk
    /\ UNCHANGED libVars

\* return dataToPublish[ostore.pubId]
RaceRead(t) ==
    /\ pc[t] = "read"
    /\ mapWriter = NoThread
    /\ rCar' = [rCar EXCEPT ![t] = dataToPublish[call[t].pubId]]
    /\ pc' = [pc EXCEPT ![t] = IF call[t].kind = "Publish"
                               THEN "draftReadRoot" ELSE "addFileLock"]
    /\ UNCHANGED << dataToPublish, heap, call, local, ret, stored, uploads, nOps,
                    raceVars >>
    /\ UNCHANGED tmpFiles
    /\ UNCHANGED dataToPublishMu
    /\ UNCHANGED walk
    /\ UNCHANGED libVars

\* A map access while another goroutine's write is in progress: fatal error
\* "concurrent map writes" / "concurrent map read and map write".
RaceFatal(t) ==
    /\ pc[t] \in {"lookup", "insert", "read"}
    /\ mapWriter \notin {NoThread, t}
    /\ crashed' = TRUE
    /\ pc' = [u \in Threads |-> "crashed"]
    /\ UNCHANGED << dataToPublish, heap, call, rCar, local, ret, stored, uploads, nOps,
                    mapWriter >>
    /\ UNCHANGED tmpFiles
    /\ UNCHANGED dataToPublishMu
    /\ UNCHANGED walk
    /\ UNCHANGED libVars

NextRace ==
    \E t \in Threads :
        \/ RaceSaveData(t)
        \/ RaceLookup(t)
        \/ RaceInsertBegin(t)
        \/ RaceInsertEnd(t)
        \/ RaceRead(t)
        \/ RaceFatal(t)
        \/ AddFileLock(t)
        \/ AddFile(t)

SpecRace == Init /\ [][NextRace]_vars

\* ------------------------------------- Publish of drivers_test.go:471-490

\* storeDirRecursively: as storeDir, but the old node is not removed and no
\* error is looked at. st = [dag, cars, ok]: the block service, the ids
\* appended to c.carCids, and whether `w3 can store add` works; when it does
\* not, storeCar returns "" and that is what is appended.
NoArchive == [root |-> <<>>, blocks |-> <<>>]

RECURSIVE storeDirRecursively(_, _, _), storeLinksRecursively(_, _)
storeLinksRecursively(links, st) ==
    IF links = <<>> THEN [links |-> <<>>, st |-> st]
    ELSE LET l == Head(links) IN
         IF l.cid \notin st.dag
         THEN LET rest == storeLinksRecursively(Tail(links), st) IN
              [rest EXCEPT !.links = << l >> \o @]
         ELSE LET sub == storeDirRecursively(DagGet(l.cid), l.name, st)
                  rest == storeLinksRecursively(Tail(links), sub.st)
              IN  [rest EXCEPT !.links = << sub.link >> \o @]

storeDirRecursively(n, name, st) ==
    LET ls == storeLinksRecursively(SortLinks(n), st)
        res == SortLinks(ls.links)
        dag2 == ls.st.dag \cup {Cid(res)}
    IN  [link |-> [name |-> name, size |-> 0, cid |-> Cid(res)],
         st |-> [ls.st EXCEPT !.dag = dag2,
                              !.cars = Append(@, IF ls.st.ok THEN WriteCar(dag2, Cid(res))
                                                 ELSE NoArchive)]]

\* Publish is called: c := ostore.getRootCar() comes first.
DraftPublish(t) ==
    /\ pc[t] = "idle"
    /\ nOps < MaxOps
    /\ \E p \in PubIds :
         call' = [call EXCEPT ![t] = [NoCall EXCEPT !.kind = "Publish", !.pubId = p]]
    /\ pc' = [pc EXCEPT ![t] = "lookup"]
    /\ ret' = [ret EXCEPT ![t] = NoRet]
    /\ nOps' = nOps + 1
    /\ UNCHANGED << dataToPublish, heap, rCar, local, stored, uploads, raceVars >>
    /\ UNCHANGED tmpFiles
    /\ UNCHANGED dataToPublishMu
    /\ UNCHANGED walk
    /\ UNCHANGED libVars

\* The arguments c.root and c.dag of storeDirRecursively are read, c.mu not
\* being locked; carCids is what c.carCids is at this moment.
DraftReadRoot(t) ==
    /\ pc[t] = "draftReadRoot"
    /\ local' = [local EXCEPT ![t] = [NoLocal EXCEPT !.root = heap[rCar[t]].root,
                                                     !.carCids = heap[rCar[t]].carCids]]
    /\ pc' = [pc EXCEPT ![t] = "draftStoreDir"]
    /\ UNCHANGED << dataToPublish, heap, call, rCar, ret, stored, uploads, nOps, raceVars >>
    /\ UNCHANGED tmpFiles
    /\ UNCHANGED dataToPublishMu
    /\ UNCHANGED walk
    /\ UNCHANGED libVars

\* storeDirRecursively(c.root, c.dag, c, "") without c.mu. Its appends to
\* c.carCids race with those of addFile: they extend the slice as it is now
\* or as it was when the traversal began.
DraftStoreDir(t) ==
    /\ pc[t] = "draftStoreDir"
    /\ LET rc == heap[rCar[t]] IN
       \E ok \in BOOLEAN, base \in {rc.carCids, local[t].carCids} :
         LET r == storeDirRecursively(local[t].root, <<>>,
                                      [dag |-> rc.dag, cars |-> <<>>, ok |-> ok])
         IN  /\ heap' = [heap EXCEPT ![rCar[t]] =
                            [rc EXCEPT !.dag = r.st.dag, !.carCids = base \o r.st.cars,
                                       !.walked = TRUE]]
             /\ stored' = stored \cup (Range(r.st.cars) \ {NoArchive})
             /\ local' = [local EXCEPT ![t].rootLink = r.link, ![t].dirCars = r.st.cars,
                                       ![t].files = rc.added, ![t].clean = FALSE]
    /\ pc' = [pc EXCEPT ![t] = "draftUpload"]
    /\ UNCHANGED << dataToPublish, call, rCar, ret, uploads, nOps, raceVars >>
    /\ tmpFiles' = tmpFiles \cup {DirCarFile(t)}
    /\ UNCHANGED dataToPublishMu
    /\ UNCHANGED walk
    /\ UNCHANGED libVars

\* Number of archive ids the upload command line indexes: c.carCids[0..4].
UploadArity == 5

\* `w3 can upload add` with c.carCids[0] .. c.carCids[4]: its error is only
\* printed, the URL is returned, and the rootCar stays registered.
DraftUpload(t) ==
    /\ pc[t] = "draftUpload"
    /\ Len(heap[rCar[t]].carCids) >= UploadArity
    /\ \/ uploads' = uploads \cup {[root |-> local[t].rootLink.cid,
                                    shards |-> SubSeq(heap[rCar[t]].carCids, 1, UploadArity),
                                    files |-> local[t].files,
                                    clean |-> local[t].clean,
                                    dirCars |-> local[t].dirCars]}
       \/ UNCHANGED uploads
    /\ ret' = [ret EXCEPT ![t] = [kind |-> "Publish", err |-> FALSE,
                                  val |-> local[t].rootLink.cid, dirPath |-> <<>>]]
    /\ pc' = [pc EXCEPT ![t] = "idle"]
    /\ call' = [call EXCEPT ![t] = NoCall]
    /\ rCar' = [rCar EXCEPT ![t] = NoCar]
    /\ local' = [local EXCEPT ![t] = NoLocal]
    /\ UNCHANGED << dataToPublish, heap, stored, nOps, raceVars >>
    /\ UNCHANGED tmpFiles
    /\ UNCHANGED dataToPublishMu
    /\ UNCHANGED walk
    /\ UNCHANGED libVars

\* Fewer than five archive ids: the index expression panics.
DraftUploadPanic(t) ==
    /\ pc[t] = "draftUpload"
    /\ Len(heap[rCar[t]].carCids) < UploadArity
    /\ crashed' = TRUE
    /\ pc' = [u \in Threads |-> "crashed"]
    /\ UNCHANGED << dataToPublish, heap, call, rCar, local, ret, stored, uploads, nOps,
                    mapWriter >>
    /\ UNCHANGED tmpFiles
    /\ UNCHANGED dataToPublishMu
    /\ UNCHANGED walk
    /\ UNCHANGED libVars

NextDraft ==
    \E t \in Threads :
        \/ RaceSaveData(t)
        \/ DraftPublish(t)
        \/ RaceLookup(t)
        \/ RaceInsertBegin(t)
        \/ RaceInsertEnd(t)
        \/ RaceRead(t)
        \/ RaceFatal(t)
        \/ AddFileLock(t)
        \/ AddFile(t)
        \/ DraftReadRoot(t)
        \/ DraftStoreDir(t)
        \/ DraftUpload(t)
        \/ DraftUploadPanic(t)

SpecDraft == Init /\ [][NextDraft]_vars

\* ------------------------------------------------- storeDir, link by link

\* What l.GetNode(ctx, rc.dag) comes back with: the node, ErrNotFound, or
\* another error of the DAGService (I/O, a cancelled or expired context).
Lookups(present) ==
    IF present THEN { "found", "failed" } ELSE { "notFound", "failed" }

\* The frame of a call storeDir(ctx, n, linkName): the links of n, its id, the
\* loop position and nonDirLinks. path is history: the names from the root.
Frame(n, linkName, path) ==
    [links |-> SortLinks(n), cid |-> Cid(n), linkName |-> linkName, path |-> path,
     i |-> 1, nonDirLinks |-> <<>>]

WalkSaveData(t) == SaveDataOn(t, PubIds, IsoDirPaths, IsoNames)

\* Publish calls rCar.storeDir(ctx, rCar.root, "") under rCar.mu.
StoreDirEnter(t) ==
    /\ pc[t] = "storeDir"
    /\ LET rc == heap[rCar[t]] IN
       /\ walk' = [walk EXCEPT ![t] = [stack |-> << Frame(rc.root, <<>>, <<>>) >>,
                                       log |-> <<>>]]
       /\ local' = [local EXCEPT ![t] = [NoLocal EXCEPT !.files = rc.added,
                                                        !.clean = ~rc.errs /\ ~rc.walked]]
       /\ heap' = [heap EXCEPT ![rCar[t]].walked = TRUE]
    /\ pc' = [pc EXCEPT ![t] = "walk"]
    /\ UNCHANGED << dataToPublish, call, rCar, ret, stored, uploads, nOps >>
    /\ UNCHANGED raceVars
    /\ UNCHANGED tmpFiles
    /\ UNCHANGED dataToPublishMu
    /\ UNCHANGED libVars

\* The loop body without `nonDirLinks = append(nonDirLinks, l)`.
StoreDirLinkDropsFile(t) ==
    /\ pc[t] = "walk"
    /\ LET w == walk[t]
           top == w.stack[Len(w.stack)]
       IN  /\ top.i <= Len(top.links)
           /\ LET l == top.links[top.i]
                  here == Append(top.path, l.name)
              IN  \E outcome \in Lookups(l.cid \in heap[rCar[t]].dag) :
                    LET top2 == [top EXCEPT !.i = @ + 1]
                        rest == SubSeq(w.stack, 1, Len(w.stack) - 1)
                        ev == [kind |-> "lookup", path |-> here, outcome |-> outcome,
                               link |-> l]
                    IN  walk' = [walk EXCEPT ![t] =
                              [stack |-> IF outcome = "found"
                                         THEN rest \o << top2, Frame(DagGet(l.cid), l.name, here) >>
                                         ELSE rest \o << top2 >>,
                               log |-> Append(w.log, ev)]]
    /\ UNCHANGED << dataToPublish, heap, pc, call, rCar, local, ret, stored, uploads, nOps >>
    /\ UNCHANGED raceVars
    /\ UNCHANGED tmpFiles
    /\ UNCHANGED dataToPublishMu
    /\ UNCHANGED libVars

\* One iteration of `for _, l := range n.Links()`: on an error of GetNode the
\* link is appended to nonDirLinks as it is, otherwise storeDir is called on
\* the child (and its result appended when it returns).
StoreDirLink(t) ==
    /\ pc[t] = "walk"
    /\ LET w == walk[t]
           top == w.stack[Len(w.stack)]
       IN  /\ top.i <= Len(top.links)
           /\ LET l == top.links[top.i]
                  here == Append(top.path, l.name)
              IN  \E outcome \in Lookups(l.cid \in heap[rCar[t]].dag) :
                    LET top2 == [top EXCEPT !.i = @ + 1,
                                            !.nonDirLinks = IF outcome = "found"
                                                            THEN @ ELSE Append(@, l)]
                        rest == SubSeq(w.stack, 1, Len(w.stack) - 1)
                        ev == [kind |-> "lookup", path |-> here, outcome |-> outcome,
                               link |-> l]
                    IN  walk' = [walk EXCEPT ![t] =
                              [stack |-> IF outcome = "found"
                                         THEN rest \o << top2, Frame(DagGet(l.cid), l.name, here) >>
                                         ELSE rest \o << top2 >>,
                               log |-> Append(w.log, ev)]]
    /\ UNCHANGED << dataToPublish, heap, pc, call, rCar, local, ret, stored, uploads, nOps >>
    /\ UNCHANGED raceVars
    /\ UNCHANGED tmpFiles
    /\ UNCHANGED dataToPublishMu
    /\ UNCHANGED libVars

\* The rest of storeDir with `if err != nil { return nil, err }` after
\* w3StoreCar left out: the archive id is not appended and the link returned.
StoreDirArchiveIgnoresErr(t) ==
    /\ pc[t] = "walk"
    /\ LET w == walk[t]
           top == w.stack[Len(w.stack)]
           rest == SubSeq(w.stack, 1, Len(w.stack) - 1)
           rc == heap[rCar[t]]
       IN  /\ top.i > Len(top.links)
           /\ LET newN == SortLinks(top.nonDirLinks)
                  dag2 == (rc.dag \ {top.cid}) \cup {Cid(newN)}
                  archive == WriteCar(dag2, Cid(newN))
                  newLink == [name |-> top.linkName, size |-> 0, cid |-> Cid(newN)]
              IN  \E ok \in BOOLEAN :
                    LET rc2 == [rc EXCEPT !.dag = dag2,
                                          !.carCids = IF ok THEN Append(@, archive) ELSE @]
                        ev == [kind |-> "store", path |-> top.path,
                               outcome |-> IF ok THEN "stored" ELSE "storeFailed",
                               link |-> newLink]
                    IN  /\ tmpFiles' = (tmpFiles \cup {DirCarFile(t)}) \ {DirCarFile(t)}
                        /\ stored' = IF ok THEN stored \cup {archive} ELSE stored
                        /\ IF rest = <<>>
                           THEN /\ walk' = [walk EXCEPT ![t] =
                                       [stack |-> <<>>, log |-> Append(w.log, ev)]]
                                /\ heap' = [heap EXCEPT ![rCar[t]] =
                                               [rc2 EXCEPT !.mu = NoThread]]
                                /\ local' = [local EXCEPT
                                       ![t].rootLink = newLink,
                                       ![t].carCids = rc2.carCids,
                                       ![t].dirCars = IF ok THEN Append(@, archive) ELSE @]
                                /\ pc' = [pc EXCEPT ![t] = "upload"]
                           ELSE /\ walk' = [walk EXCEPT ![t] =
                                       [stack |-> SubSeq(rest, 1, Len(rest) - 1) \o
                                                  << [rest[Len(rest)] EXCEPT
                                                        !.nonDirLinks = Append(@, newLink)] >>,
                                        log |-> Append(w.log, ev)]]
                                /\ heap' = [heap EXCEPT ![rCar[t]] = rc2]
                                /\ local' = [local EXCEPT
                                       ![t].dirCars = IF ok THEN Append(@, archive) ELSE @]
                                /\ UNCHANGED pc
    /\ UNCHANGED << dataToPublish, call, rCar, ret, uploads, nOps >>
    /\ UNCHANGED raceVars
    /\ UNCHANGED dataToPublishMu
    /\ UNCHANGED libVars

\* The rest of storeDir once the loop is over: the rewritten node replaces n
\* in the block service, its archive is written to a temporary file and
\* stored. An error of w3StoreCar is returned by every storeDir call in
\* progress and Publish returns, rCar.mu locked; otherwise the archive id is
\* appended and the new link returned, to the calling storeDir or to Publish,
\* which copies carCids and unlocks.
StoreDirArchive(t) ==
    /\ pc[t] = "walk"
    /\ LET w == walk[t]
           top == w.stack[Len(w.stack)]
           rest == SubSeq(w.stack, 1, Len(w.stack) - 1)
           rc == heap[rCar[t]]
       IN  /\ top.i > Len(top.links)
           /\ LET newN == SortLinks(top.nonDirLinks)
                  dag2 == (rc.dag \ {top.cid}) \cup {Cid(newN)}
                  archive == WriteCar(dag2, Cid(newN))
                  newLink == [name |-> top.linkName, size |-> 0, cid |-> Cid(newN)]
              IN  \E ok \in BOOLEAN :
                    LET rc2 == [rc EXCEPT !.dag = dag2,
                                          !.carCids = IF ok THEN Append(@, archive) ELSE @]
                        ev == [kind |-> "store", path |-> top.path,
                               outcome |-> IF ok THEN "stored" ELSE "storeFailed",
                               link |-> newLink]
                    IN  /\ tmpFiles' = (tmpFiles \cup {DirCarFile(t)}) \ {DirCarFile(t)}
                        /\ stored' = IF ok THEN stored \cup {archive} ELSE stored
                        /\ IF ~ok
                           THEN /\ walk' = [walk EXCEPT ![t] =
                                       [stack |-> <<>>, log |-> Append(w.log, ev)]]
                                /\ heap' = [heap EXCEPT ![rCar[t]] = rc2]
                                /\ local' = [local EXCEPT ![t].outcome = "storeDirFailed"]
                                /\ pc' = [pc EXCEPT ![t] = "deleteRootCar"]
                           ELSE IF rest = <<>>
                           THEN /\ walk' = [walk EXCEPT ![t] =
                                       [stack |-> <<>>, log |-> Append(w.log, ev)]]
                                /\ heap' = [heap EXCEPT ![rCar[t]] =
                                               [rc2 EXCEPT !.mu = NoThread]]
                                /\ local' = [local EXCEPT
                                       ![t].rootLink = newLink,
                                       ![t].carCids = rc2.carCids,
                                       ![t].dirCars = Append(@, archive)]
                                /\ pc' = [pc EXCEPT ![t] = "upload"]
                           ELSE /\ walk' = [walk EXCEPT ![t] =
                                       [stack |-> SubSeq(rest, 1, Len(rest) - 1) \o
                                                  << [rest[Len(rest)] EXCEPT
                                                        !.nonDirLinks = Append(@, newLink)] >>,
                                        log |-> Append(w.log, ev)]]
                                /\ heap' = [heap EXCEPT ![rCar[t]] = rc2]
                                /\ local' = [local EXCEPT ![t].dirCars = Append(@, archive)]
                                /\ UNCHANGED pc
    /\ UNCHANGED << dataToPublish, call, rCar, ret, uploads, nOps >>
    /\ UNCHANGED raceVars
    /\ UNCHANGED dataToPublishMu
    /\ UNCHANGED libVars

NextWalk ==
    \E t \in Threads :
        \/ WalkSaveData(t)
        \/ AddFileLock(t)
        \/ AddFile(t)
        \/ PublishGetRootCar(t)
        \/ PublishLock(t)
        \/ StoreDirEnter(t)
        \/ StoreDirLink(t)
        \/ StoreDirArchive(t)
        \/ PublishUpload(t)
        \/ PublishDeleteRootCar(t)

SpecWalk == Init /\ [][NextWalk]_vars

\* ------------------------------------------------------------ SaveRetried

\* The largest retry count a caller passes.
MaxRetry == 3

\* The retry counts a caller passes: an int, so zero and negative ones too.
RetryCounts == -1 .. MaxRetry

\* What one sess.SaveData call returns: an output pointer and an error,
\* either of which may be nil (the OSSession interface promises no more).
SaveDataOutputs == { "nil", "out1", "out2" }
SaveDataErrors == { "nil", "err1", "err2" }
SaveDataReturns == [ out : SaveDataOutputs, err : SaveDataErrors ]

\* SaveRetried is called: the check of retryCount, then the declarations of
\* out and err (both nil) and of the loop counter.  calls is the record of
\* the SaveData calls made, in order.
SaveRetried ==
    /\ sr.pc = "idle"
    /\ \E retryCount \in RetryCounts :
        sr' = IF retryCount < 1
              THEN [ pc |-> "done", retryCount |-> retryCount, i |-> 0,
                     out |-> "nil", err |-> "nil", calls |-> <<>>,
                     ret |-> [ out |-> "nil", err |-> "invalid retry count" ] ]
              ELSE [ pc |-> "loop", retryCount |-> retryCount, i |-> 0,
                     out |-> "nil", err |-> "nil", calls |-> <<>>,
                     ret |-> [ out |-> "nil", err |-> "nil" ] ]
    /\ UNCHANGED << driverVars, prf, fs >>

\* The loop body without the return on err == nil.
SaveRetriedNoEarlyReturn ==
    /\ sr.pc = "loop"
    /\ sr.i < sr.retryCount
    /\ \E r \in SaveDataReturns :
        sr' = [ sr EXCEPT !.out = r.out, !.err = r.err,
                          !.calls = Append(@, r), !.i = @ + 1 ]
    /\ UNCHANGED << driverVars, prf, fs >>

\* One iteration of the loop: the call of sess.SaveData, whose results are
\* assigned to out and err, and the return when err is nil.
SaveRetriedSaveData ==
    /\ sr.pc = "loop"
    /\ sr.i < sr.retryCount
    /\ \E r \in SaveDataReturns :
        sr' = IF r.err = "nil"
              THEN [ sr EXCEPT !.out = r.out, !.err = r.err,
                               !.calls = Append(@, r),
                               !.pc = "done", !.ret = r ]
              ELSE [ sr EXCEPT !.out = r.out, !.err = r.err,
                               !.calls = Append(@, r), !.i = @ + 1 ]
    /\ UNCHANGED << driverVars, prf, fs >>

\* The loop condition fails: return out, err.
SaveRetriedExhausted ==
    /\ sr.pc = "loop"
    /\ sr.i >= sr.retryCount
    /\ sr' = [ sr EXCEPT !.pc = "done", !.ret = [ out |-> sr.out, err |-> sr.err ] ]
    /\ UNCHANGED << driverVars, prf, fs >>

NextRetry ==
    \/ SaveRetried
    \/ SaveRetriedSaveData
    \/ SaveRetriedExhausted

SpecRetry == Init /\ [][NextRetry]_vars

\* ------------------------------------------------------------ ParallelReadFiles

\* The longest list of file names and the largest number of jobs a caller passes.
MaxFiles == 3
MaxWorkers == 2

\* The names of the files of the session; a list may name a file twice.
ReadNames == { "a", "b" }

RECURSIVE ListsUpTo(_)
ListsUpTo(n) ==
    IF n = 0 THEN { <<>> }
    ELSE LET shorter == ListsUpTo(n - 1)
         IN  shorter \cup { Append(l, x) : l \in { m \in shorter : Len(m) = n - 1 },
                                            x \in ReadNames }

FilesNamesLists == ListsUpTo(MaxFiles)

\* workers is an int: zero and negative numbers of jobs too.
WorkerCounts == -1 .. MaxWorkers

\* The bodies a file of the session may turn out to have.
FileBodies == { "x", "y" }

\* The nil *FileInfoReader and the nil byte slice.
NilRead == << >>

\* What a worker puts in a readResult after sess.ReadData and ioutil.ReadAll
\* on the file fileName: the error of either, with fileInfo and data left
\* nil, or the file's info and its bytes.  Indices are counted from 1.
readResults(task) ==
    { [ index |-> task.index, fileInfo |-> NilRead, data |-> NilRead, err |-> e ] :
        e \in { "ReadData failed", "ReadAll failed" } }
    \cup
    { [ index |-> task.index, fileInfo |-> <<"info", task.fileName>>,
        data |-> <<task.fileName, b>>, err |-> "nil" ] : b \in FileBodies }

NoTask == [ fileName |-> "", index |-> 0 ]

\* ParallelReadFiles is called: workersToStart, the two channels (tasks is
\* unbuffered, so it holds nothing between steps), the go statements.
\* reads and arrived are records of what happened: the reads made by the
\* workers, and the indices in the order they came out of resCh.
ParallelReadFiles ==
    /\ prf.pc = "idle"
    /\ \E filesNames \in FilesNamesLists, workers \in WorkerCounts :
        LET workersToStart == IF Len(filesNames) < workers THEN Len(filesNames)
                              ELSE workers
        IN  prf' = [ pc |-> "dispatch",
                     filesNames |-> filesNames,
                     workers |-> workers,
                     workersToStart |-> workersToStart,
                     resCh |-> <<>>,
                     worker |-> [ w \in 1 .. workersToStart |->
                                    [ pc |-> "select", task |-> NoTask ] ],
                     i |-> 1,
                     firs |-> <<>>,
                     data |-> <<>>,
                     err |-> "nil",
                     received |-> 0,
                     cancelled |-> FALSE,
                     reads |-> <<>>,
                     arrived |-> <<>> ]
    /\ UNCHANGED << driverVars, sr, fs >>

\* The caller's context is cancelled, or its deadline passes.
CtxDone ==
    /\ prf.pc # "idle"
    /\ ~ prf.cancelled
    /\ prf' = [ prf EXCEPT !.cancelled = TRUE ]
    /\ UNCHANGED << driverVars, sr, fs >>

\* tasks <- task in ParallelReadFiles meets task := <-tasks in worker w.
readWorkerTask(w) ==
    /\ prf.pc = "dispatch"
    /\ prf.i <= Len(prf.filesNames)
    /\ w \in DOMAIN prf.worker
    /\ prf.worker[w].pc = "select"
    /\ prf' = [ prf EXCEPT
                  !.worker[w] = [ pc |-> "read",
                                  task |-> [ fileName |-> prf.filesNames[prf.i],
                                             index |-> prf.i ] ],
                  !.i = @ + 1 ]
    /\ UNCHANGED << driverVars, sr, fs >>

\* case <-ctx.Done(): return
readWorkerCtxDone(w) ==
    /\ prf.pc # "idle"
    /\ w \in DOMAIN prf.worker
    /\ prf.worker[w].pc = "select"
    /\ prf.cancelled
    /\ prf' = [ prf EXCEPT !.worker[w].pc = "exited" ]
    /\ UNCHANGED << driverVars, sr, fs >>

\* A worker that returns after sending a readResult with an error.
readWorkerReadReturnsOnErr(w) ==
    /\ prf.pc # "idle"
    /\ w \in DOMAIN prf.worker
    /\ prf.worker[w].pc = "read"
    /\ Len(prf.resCh) < Len(prf.filesNames)
    /\ \E res \in readResults(prf.worker[w].task) :
        prf' = [ prf EXCEPT
                   !.resCh = Append(@, res),
                   !.reads = Append(@, [ fileName |-> prf.worker[w].task.fileName,
                                         res |-> res ]),
                   !.worker[w] = [ pc |-> IF res.err # "nil" THEN "exited" ELSE "select",
                                   task |-> NoTask ] ]
    /\ UNCHANGED << driverVars, sr, fs >>

\* Worker w reads the file of its task and sends the readResult on resCh,
\* which has room for len(filesNames) results; then it selects again.
readWorkerRead(w) ==
    /\ prf.pc # "idle"
    /\ w \in DOMAIN prf.worker
    /\ prf.worker[w].pc = "read"
    /\ Len(prf.resCh) < Len(prf.filesNames)
    /\ \E res \in readResults(prf.worker[w].task) :
        prf' = [ prf EXCEPT
                   !.resCh = Append(@, res),
                   !.reads = Append(@, [ fileName |-> prf.worker[w].task.fileName,
                                         res |-> res ]),
                   !.worker[w] = [ pc |-> "select", task |-> NoTask ] ]
    /\ UNCHANGED << driverVars, sr, fs >>

\* Every task has been sent: firs and data are made, all nil.
ParallelReadFilesSent ==
    /\ prf.pc = "dispatch"
    /\ prf.i > Len(prf.filesNames)
    /\ prf' = [ prf EXCEPT
                  !.pc = "collect",
                  !.firs = [ k \in 1 .. Len(prf.filesNames) |-> NilRead ],
                  !.data = [ k \in 1 .. Len(prf.filesNames) |-> NilRead ] ]
    /\ UNCHANGED << driverVars, sr, fs >>

\* The receiving loop storing each result at the place it arrived in.
ParallelReadFilesReceiveInOrder ==
    /\ prf.pc = "collect"
    /\ prf.received < Len(prf.filesNames)
    /\ prf.resCh # <<>>
    /\ LET res == Head(prf.resCh)
       IN  prf' = [ prf EXCEPT
                      !.resCh = Tail(@),
                      !.firs[prf.received + 1] = res.fileInfo,
                      !.data[prf.received + 1] = res.data,
                      !.err = IF res.err # "nil" THEN res.err ELSE @,
                      !.received = @ + 1,
                      !.arrived = Append(@, res.index) ]
    /\ UNCHANGED << driverVars, sr, fs >>

\* One iteration of the receiving loop: res := <-resCh, stored at res.index.
ParallelReadFilesReceive ==
    /\ prf.pc = "collect"
    /\ prf.received < Len(prf.filesNames)
    /\ prf.resCh # <<>>
    /\ LET res == Head(prf.resCh)
       IN  prf' = [ prf EXCEPT
                      !.resCh = Tail(@),
                      !.firs[res.index] = res.fileInfo,
                      !.data[res.index] = res.data,
                      !.err = IF res.err # "nil" THEN res.err ELSE @,
                      !.received = @ + 1,
                      !.arrived = Append(@, res.index) ]
    /\ UNCHANGED << driverVars, sr, fs >>

\* return firs, data, err
ParallelReadFilesReturn ==
    /\ prf.pc = "collect"
    /\ prf.received >= Len(prf.filesNames)
    /\ prf' = [ prf EXCEPT !.pc = "done" ]
    /\ UNCHANGED << driverVars, sr, fs >>

NextRead ==
    \/ ParallelReadFiles
    \/ CtxDone
    \/ \E w \in 1 .. MaxWorkers :
        \/ readWorkerTask(w)
        \/ readWorkerCtxDone(w)
        \/ readWorkerRead(w)
    \/ ParallelReadFilesSent
    \/ ParallelReadFilesReceive
    \/ ParallelReadFilesReturn

SpecRead == Init /\ [][NextRead]_vars

\* Every goroutine that can take a step takes one: the caller at its loops,
\* each worker at its select, and every ReadData and ReadAll call returns.
\* Nothing makes the caller cancel its context.
ReadFairness ==
    /\ WF_vars(ParallelReadFilesSent)
    /\ WF_vars(ParallelReadFilesReceive)
    /\ WF_vars(ParallelReadFilesReturn)
    /\ \A w \in 1 .. MaxWorkers :
          /\ WF_vars(readWorkerTask(w))
          /\ WF_vars(readWorkerCtxDone(w))
          /\ WF_vars(readWorkerRead(w))

SpecReadLive == SpecRead /\ ReadFairness

\* ------------------------------------------------------ the filesystem driver

\* The streams a session caches data for.
StreamIDs == { "s" }

\* &FSSession{os: ostore, path: path, dCache: make(...), dLock: sync.RWMutex{}}
\* dLock is the goroutine that holds the lock for writing.
NewFSSession(path) ==
    [ path |-> path, ended |-> FALSE, dCache |-> {}, dLock |-> NoThread ]

\* ostore.NewSession(path) is called and ostore.lock.Lock() returns. A
\* goroutine holds one session at a time, and the session a call would
\* allocate is one of the MaxSessions of the model.
NewSessionLock(t) ==
    /\ fs.call[t].pc = "idle"
    /\ fs.call[t].sess = NoSession
    /\ fs.lock = NoThread
    /\ \E path \in FsPaths :
        /\ fs.sessions[path] # NoSession \/ Len(fs.session) < MaxSessions
        /\ fs' = [ fs EXCEPT !.lock = t,
                             !.call[t] = [ NoFsCall EXCEPT !.pc = "NewSession",
                                                           !.path = path ] ]
    /\ UNCHANGED << driverVars, sr, prf >>

\* The body of NewSession and its deferred ostore.lock.Unlock(): the session
\* registered for path, or a new one that it registers.
NewSession(t) ==
    /\ fs.call[t].pc = "NewSession"
    /\ fs.lock = t
    /\ LET path == fs.call[t].path
           new == Len(fs.session) + 1
       IN  IF fs.sessions[path] # NoSession
           THEN fs' = [ fs EXCEPT !.lock = NoThread,
                                  !.call[t] = [ NoFsCall EXCEPT
                                                  !.sess = fs.sessions[path],
                                                  !.ret = fs.sessions[path] ] ]
           ELSE fs' = [ fs EXCEPT !.session = Append(@, NewFSSession(path)),
                                  !.sessions[path] = new,
                                  !.lock = NoThread,
                                  !.call[t] = [ NoFsCall EXCEPT !.sess = new,
                                                                !.ret = new ] ]
    /\ UNCHANGED << driverVars, sr, prf >>

\* ostore.GetSession(path) is called and ostore.lock.Lock() returns.
GetSessionLock(t) ==
    /\ fs.call[t].pc = "idle"
    /\ fs.lock = NoThread
    /\ \E path \in FsPaths :
        fs' = [ fs EXCEPT !.lock = t,
                          !.call[t] = [ @ EXCEPT !.pc = "GetSession", !.path = path ] ]
    /\ UNCHANGED << driverVars, sr, prf >>

\* The body of GetSession and its deferred Unlock(): the session registered
\* for path, or nil.
GetSession(t) ==
    /\ fs.call[t].pc = "GetSession"
    /\ fs.lock = t
    /\ fs' = [ fs EXCEPT !.lock = NoThread,
                         !.call[t] = [ @ EXCEPT !.pc = "idle", !.path = "",
                                                !.ret = fs.sessions[fs.call[t].path] ] ]
    /\ UNCHANGED << driverVars, sr, prf >>

\* getCacheForStream(streamID) on the session the goroutine holds: the cache
\* of the stream, made if there is none. The method takes no lock and no code
\* of the repository calls it; the caller here is one that keeps out of the
\* critical section of EndSession.
getCacheForStream(t) ==
    /\ fs.call[t].pc = "idle"
    /\ fs.call[t].sess # NoSession
    /\ fs.session[fs.call[t].sess].dLock = NoThread
    /\ \E streamID \in StreamIDs :
        /\ streamID \notin fs.session[fs.call[t].sess].dCache
        /\ fs' = [ fs EXCEPT !.session[fs.call[t].sess].dCache = @ \cup { streamID } ]
    /\ UNCHANGED << driverVars, sr, prf >>

\* EndSession() is called on the session the goroutine holds, and
\* ostore.dLock.Lock() returns.
EndSessionDLock(t) ==
    /\ fs.call[t].pc = "idle"
    /\ fs.call[t].sess # NoSession
    /\ fs.session[fs.call[t].sess].dLock = NoThread
    /\ fs' = [ fs EXCEPT !.session[fs.call[t].sess].dLock = t,
                         !.call[t].pc = "EndSession" ]
    /\ UNCHANGED << driverVars, sr, prf >>

\* ostore.ended = true, the loop that empties dCache, ostore.dLock.Unlock().
EndSessionClear(t) ==
    /\ fs.call[t].pc = "EndSession"
    /\ fs' = [ fs EXCEPT !.session[fs.call[t].sess] =
                             [ @ EXCEPT !.ended = TRUE, !.dCache = {},
                                        !.dLock = NoThread ],
                         !.call[t].pc = "EndSessionUnlocked" ]
    /\ UNCHANGED << driverVars, sr, prf >>

\* ostore.os.lock.Lock() of EndSession.
EndSessionLock(t) ==
    /\ fs.call[t].pc = "EndSessionUnlocked"
    /\ fs.lock = NoThread
    /\ fs' = [ fs EXCEPT !.lock = t, !.call[t].pc = "EndSessionDelete" ]
    /\ UNCHANGED << driverVars, sr, prf >>

\* delete(ostore.os.sessions, ostore.path), ostore.os.lock.Unlock(), return.
EndSessionDelete(t) ==
    /\ fs.call[t].pc = "EndSessionDelete"
    /\ fs.lock = t
    /\ fs' = [ fs EXCEPT !.sessions[fs.session[fs.call[t].sess].path] = NoSession,
                         !.lock = NoThread,
                         !.call[t] = NoFsCall ]
    /\ UNCHANGED << driverVars, sr, prf >>

NextFs ==
    \E t \in Threads :
        \/ NewSessionLock(t)
        \/ NewSession(t)
        \/ GetSessionLock(t)
        \/ GetSession(t)
        \/ getCacheForStream(t)
        \/ EndSessionDLock(t)
        \/ EndSessionClear(t)
        \/ EndSessionLock(t)
        \/ EndSessionDelete(t)

SpecFs == Init /\ [][NextFs]_vars

\* ------------------------------------------------------------ what is checked

\* The path of a file below the root: its directory names, then its name.
FullPath(a) == Append(a.dir, a.name)

IsPrefix(a, b) == Len(a) <= Len(b) /\ SubSeq(b, 1, Len(a)) = a

\* The additions are at pairwise distinct full paths.
DistinctPaths(files) ==
    \A j, k \in DOMAIN files : j # k => FullPath(files[j]) # FullPath(files[k])

\* No addition names a file like a directory of an addition.
NoFileIsDir(files) ==
    \A j, k \in DOMAIN files : ~IsPrefix(FullPath(files[j]), files[k].dir)

\* Walk the directory names of dir from node n, fetching nodes from blocks.
RECURSIVE Resolve(_, _, _)
Resolve(n, blocks, dir) ==
    IF dir = <<>> THEN [ok |-> TRUE, node |-> n]
    ELSE IF ~HasLink(n, Head(dir)) THEN [ok |-> FALSE, node |-> <<>>]
    ELSE LET l == GetNodeLink(n, Head(dir)) IN
         IF l.cid \in blocks
         THEN Resolve(DagGet(l.cid), blocks, Tail(dir))
         ELSE [ok |-> FALSE, node |-> <<>>]

\* The directory at a.dir below n holds a link a.name to a.cid.
HoldsFile(n, blocks, a) ==
    LET r == Resolve(n, blocks, a.dir) IN
    /\ r.ok
    /\ \E i \in 1..Len(r.node) : r.node[i].name = a.name /\ r.node[i].cid = a.cid

\* A rootCar that only successful addFile calls have touched.
OnlyAdded(rc) == ~rc.walked /\ ~rc.errs

\* C1: concurrent SaveData calls on one pubId, at pairwise distinct full paths
\* and all successful, leave every one of their files linked in the tree of
\* the rootCar (here even when no file is named like a directory).
C1_NoAdditionLost ==
    \A i \in DOMAIN heap :
        LET rc == heap[i] IN
        (OnlyAdded(rc) /\ DistinctPaths(rc.added) /\ NoFileIsDir(rc.added))
            => \A k \in DOMAIN rc.added : HoldsFile(rc.root, rc.dag, rc.added[k])

\* C2: while the registry holds a rootCar for a pubId no other rootCar is put
\* in its place: the entry changes only by being deleted.
C2_OneRootCarPerPubId ==
    [][\A p \in PubIds :
          dataToPublish[p] # NoCar => dataToPublish'[p] \in {dataToPublish[p], NoCar}]_vars

\* Publish of goroutine t returns in this step.
PublishReturns(t) == pc[t] = "deleteRootCar" /\ pc'[t] = "idle"

\* C3: when a Publish whose storeDir or upload failed returns, the registry
\* still maps the pubId to the rootCar it worked on.
C3_FailedPublishKeepsRootCar ==
    [][\A t \in Threads :
          (PublishReturns(t) /\ local[t].outcome \in {"storeDirFailed", "uploadFailed"})
              => dataToPublish'[call[t].pubId] = rCar[t]]_vars

\* C4: when a successful Publish returns the pubId is no longer registered, and
\* an entry leaves the registry only in the return of a successful Publish.
C4_RemovedOnSuccessOnly ==
    [][/\ \A t \in Threads :
             (PublishReturns(t) /\ local[t].outcome = "published")
                 => dataToPublish'[call[t].pubId] = NoCar
       /\ \A p \in PubIds :
             (dataToPublish[p] # NoCar /\ dataToPublish'[p] = NoCar)
                 => \E t \in Threads : /\ PublishReturns(t)
                                       /\ call[t].pubId = p
                                       /\ local[t].outcome = "published"]_vars

\* C5: Publish returns a nil error only after w3UploadCar has succeeded.
C5_PublishFailureReturned ==
    [][\A t \in Threads :
          (PublishReturns(t) /\ ~ret'[t].err) => local[t].outcome = "published"]_vars

\* The directory nodes in the archives of an upload.
Blocks(shards) == UNION { Range(shards[i].blocks) : i \in DOMAIN shards } \ FileCids

\* File a of upload u is fetched by its path from the bound root, through
\* nodes of the bound archives, and its own archive is bound.
Fetches(u, a) ==
    /\ u.root \in Blocks(u.shards)
    /\ LET r == Resolve(DagGet(u.root), Blocks(u.shards), a.dir) IN
       /\ r.ok
       /\ HasLink(r.node, a.name)
       /\ GetNodeLink(r.node, a.name).cid = a.cid
    /\ FileCar(a.cid) \in Range(u.shards)

\* The additions an upload is checked against: all successful, on a rootCar
\* no Publish had walked, at distinct paths, no file named like a directory.
PlainUpload(u) == u.clean /\ DistinctPaths(u.files) /\ NoFileIsDir(u.files)

\* C6: after successful SaveData calls and a successful Publish every saved
\* file is fetched from the bound root by its path.
C6_RoundTrip ==
    \A u \in uploads :
        PlainUpload(u) => \A k \in DOMAIN u.files : Fetches(u, u.files[k])

\* Every directory link below n resolves in dag, at every depth.
RECURSIVE DirLinksResolve(_, _)
DirLinksResolve(n, dag) ==
    \A i \in 1..Len(n) :
        \/ IsFileCid(n[i].cid)
        \/ /\ n[i].cid \in dag
           /\ DirLinksResolve(DagGet(n[i].cid), dag)

\* C7: after successful addFile calls every directory link reachable from the
\* root resolves to a node of the rootCar's block service.
C7_DirLinksResolve ==
    \A i \in DOMAIN heap :
        OnlyAdded(heap[i]) => DirLinksResolve(heap[i].root, heap[i].dag)

Prefixes(d) == { SubSeq(d, 1, k) : k \in 0..Len(d) }

\* The directories of a tree built from the additions: the root and every
\* prefix of a directory path.
Dirs(files) == {<<>>} \cup UNION { Prefixes(files[k].dir) : k \in DOMAIN files }

\* C8: a successful Publish stores one archive for each directory of the tree,
\* the root included, and every directory is reached from the bound root
\* through the nodes these archives were written for.
C8_EveryDirArchived ==
    \A u \in uploads :
        PlainUpload(u) =>
            LET roots == { u.dirCars[i].root : i \in DOMAIN u.dirCars } IN
            /\ Len(u.dirCars) = Cardinality(Dirs(u.files))
            /\ u.root \in roots
            /\ \A d \in Dirs(u.files) : Resolve(DagGet(u.root), roots, d).ok

LinksNamed(n, name) == SelectSeq(n, LAMBDA l : l.name = name)

\* C9: after two successful addFile calls with the same dirPath and filename
\* and different file ids, the directory holds one link of that name, to the
\* id of the later call.
C9_LastWriteWins ==
    \A i \in DOMAIN heap :
        LET rc == heap[i] IN
        (OnlyAdded(rc) /\ NoFileIsDir(rc.added)) =>
            \A j, k \in DOMAIN rc.added :
                ( /\ j < k
                  /\ FullPath(rc.added[j]) = FullPath(rc.added[k])
                  /\ rc.added[j].cid # rc.added[k].cid
                  /\ \A m \in DOMAIN rc.added :
                        m > k => FullPath(rc.added[m]) # FullPath(rc.added[k]) )
                => LET r == Resolve(rc.root, rc.dag, rc.added[k].dir) IN
                   r.ok => LinksNamed(r.node, rc.added[k].name)
                              = << [name |-> rc.added[k].name, size |-> 0,
                                    cid |-> rc.added[k].cid] >>

\* dirPath without leading, trailing and repeated separators; prev tells
\* whether a name character came last.
RECURSIVE Squeeze(_, _)
Squeeze(s, prev) ==
    IF s = <<>> THEN <<>>
    ELSE IF Head(s) = "/"
         THEN IF prev /\ \E i \in 1..Len(s) : s[i] # "/"
              THEN << "/" >> \o Squeeze(Tail(s), FALSE)
              ELSE Squeeze(Tail(s), FALSE)
         ELSE << Head(s) >> \o Squeeze(Tail(s), TRUE)

Normalized(dirPath) == Squeeze(dirPath, FALSE)

\* addFile of goroutine t returns in this step.
AddFileReturns(t) == pc[t] = "addFile" /\ pc'[t] = "idle"

\* C10: addFile with any dirPath leaves the rootCar as addFile with the
\* normalized dirPath would (same tree, same root id, same result), and with
\* a dirPath of separators only a successful addFile links the file in the root.
C10_PathNormalization ==
    [][\A t \in Threads :
          AddFileReturns(t) =>
              LET rc == heap[rCar[t]]
                  c == call[t]
                  r == addFile(rc, Normalized(c.dirPath), c.name, c.fileCid,
                               FileCar(c.fileCid))
              IN  /\ heap'[rCar[t]] = [r.rc EXCEPT !.mu = NoThread]
                  /\ ret'[t].err = r.err
                  /\ (Normalized(c.dirPath) = <<>> /\ ~ret'[t].err)
                         => \E i \in 1..Len(heap'[rCar[t]].root) :
                               /\ heap'[rCar[t]].root[i].name = c.name
                               /\ heap'[rCar[t]].root[i].cid = c.fileCid]_vars

\* A SaveData on a driver built with "/b//a/" has succeeded and its file is
\* linked in the directory b/a of the registered rootCar.
C10_Witness ==
    \E t \in Threads, p \in PubIds :
        /\ ret[t].kind = "SaveData"
        /\ ~ret[t].err
        /\ ret[t].dirPath = <<"/", "b", "/", "/", "a", "/">>
        /\ Normalized(ret[t].dirPath) = <<"b", "/", "a">>
        /\ dataToPublish[p] # NoCar
        /\ \E f \in FileNames :
              HoldsFile(heap[dataToPublish[p]].root, heap[dataToPublish[p]].dag,
                        [dir |-> << <<"b">>, <<"a">> >>, name |-> f, cid |-> ret[t].val])

\* The paths of the directories reachable from node n through dag.
RECURSIVE TreeDirs(_, _)
TreeDirs(n, dag) ==
    {<<>>} \cup
    UNION { { <<n[i].name>> \o q : q \in TreeDirs(DagGet(n[i].cid), dag) } :
            i \in { j \in 1..Len(n) : ~IsFileCid(n[j].cid) /\ n[j].cid \in dag } }

\* A successful addFile of goroutine t returns in this step, on a rootCar
\* that only successful addFile calls had touched.
AddFileSucceeds(t) ==
    AddFileReturns(t) /\ ~ret'[t].err /\ OnlyAdded(heap[rCar[t]])

\* C11: a successful addFile at d1/.../dk changes the id of the root and of
\* every directory on that path, and every directory off the path is found
\* afterwards at its path with the same id and the same links.
C11_UpdateLocality ==
    [][\A t \in Threads :
          AddFileSucceeds(t) =>
              LET rc == heap[rCar[t]]
                  rc2 == heap'[rCar[t]]
                  path == FieldsFunc(call[t].dirPath)
              IN  \A q \in TreeDirs(rc.root, rc.dag) :
                      LET before == Resolve(rc.root, rc.dag, q)
                          after == Resolve(rc2.root, rc2.dag, q)
                      IN  /\ after.ok
                          /\ IsPrefix(q, path) <=> Cid(after.node) # Cid(before.node)]_vars

\* Goroutine t is inside a critical section of rootCar i: the body of addFile
\* or the traversal of Publish, from reading the root to the last append.
InCritical(t, i) ==
    rCar[t] = i /\ pc[t] \in {"addFile", "storeDir", "draftStoreDir"}

\* C12: at most one goroutine at a time is inside a critical section of a
\* rootCar.
C12_MutualExclusion ==
    \A i \in DOMAIN heap :
        \A t, u \in Threads :
            (InCritical(t, i) /\ InCritical(u, i)) => u = t

\* rootCar i is in use for pubId b: registered for it, or held by a call on it.
Owns(b, i) ==
    \/ dataToPublish[b] = i
    \/ \E t \in Threads : call[t].kind # "none" /\ call[t].pubId = b /\ rCar[t] = i

\* No rootCar is in use for two pubIds.
OneOwner ==
    \A i \in DOMAIN heap : \A a, b \in Campaigns : (Owns(a, i) /\ Owns(b, i)) => a = b

\* Goroutine t takes this step, in a call on pubId b.
ActsOn(t, b) ==
    /\ pc'[t] # pc[t]
    /\ b = (IF call[t].kind = "none" THEN call'[t].pubId ELSE call[t].pubId)

\* C13: a step of a call on one pubId changes no registry entry and no rootCar
\* (root, block service, archive ids, lock) of another pubId, and no rootCar is
\* in use for two pubIds, so a call locks and waits for rootCars of its own
\* pubId only.
C13_CampaignIsolation ==
    [][/\ \A b \in Campaigns :
             dataToPublish'[b] # dataToPublish[b] => \E t \in Threads : ActsOn(t, b)
       /\ \A i \in DOMAIN heap :
             heap'[i] # heap[i] =>
                 \E t \in Threads, a \in Campaigns :
                     /\ ActsOn(t, a)
                     /\ rCar[t] = i
                     /\ \A b \in Campaigns \ {a} : ~Owns(b, i)
       /\ OneOwner']_vars

\* Both pubIds have a registered rootCar holding a file, and a Publish of one
\* of them is between storeDir and its return.
C13_Witness ==
    /\ \A b \in Campaigns :
          dataToPublish[b] # NoCar /\ heap[dataToPublish[b]].added # <<>>
    /\ \E t \in Threads : pc[t] \in {"upload", "deleteRootCar"}

\* The upload u binds the archive of every file added before storeDir ran,
\* the archive of every directory storeDir stored, the root's own among them.
BindsAllArchives(u) ==
    /\ \A k \in DOMAIN u.files : FileCar(u.files[k].cid) \in Range(u.shards)
    /\ Range(u.dirCars) \subseteq Range(u.shards)
    /\ \E j \in DOMAIN u.dirCars : u.dirCars[j].root = u.root

\* C14: the archive ids bound by w3UploadCar hold the archive of every file
\* whose addFile succeeded before the traversal and of every directory the
\* traversal stored, the root's included, and the root id bound is the id of
\* the rewritten root that the returned URL names.
C14_BoundArchives ==
    [][/\ \A u \in uploads' : BindsAllArchives(u)
       /\ \A t \in Threads :
             (PublishReturns(t) /\ local[t].outcome = "published") =>
                 /\ ret'[t].val = local[t].rootLink.cid
                 /\ \E u \in uploads :
                       /\ u.root = ret'[t].val
                       /\ u.shards = local[t].carCids
                       /\ u.files = local[t].files]_vars

\* An upload of a tree with a file below the root directory has been bound.
C14_Witness ==
    \E u \in uploads : u.files # <<>> /\ Len(u.dirCars) >= 2

\* a is the archive of a file (not of a directory).
IsFileCar(a) == a.root \in FileCids

\* The elements of sub occur in seq, in the order of sub.
RECURSIVE IsSubsequence(_, _)
IsSubsequence(sub, seq) ==
    IF sub = <<>> THEN TRUE
    ELSE IF seq = <<>> THEN FALSE
    ELSE IF Head(sub) = Head(seq) THEN IsSubsequence(Tail(sub), Tail(seq))
    ELSE IsSubsequence(sub, Tail(seq))

\* The archives of the files of a history of additions, in its order.
FileCarsOf(files) == [k \in DOMAIN files |-> FileCar(files[k].cid)]

\* The bound list is file archives, those of the added files in their order
\* among them, followed by directory archives only, the last of them those
\* of this traversal in its order.
FilesThenDirs(u) ==
    LET n == Cardinality({ k \in DOMAIN u.shards : IsFileCar(u.shards[k]) })
        m == Len(u.shards) - Len(u.dirCars)
    IN  /\ \A k \in 1..n : IsFileCar(u.shards[k])
        /\ m >= n
        /\ SubSeq(u.shards, m + 1, Len(u.shards)) = u.dirCars
        /\ IsSubsequence(FileCarsOf(u.files), SubSeq(u.shards, 1, n))

\* C15: additions take effect in the order addFile acquires the lock, the
\* archive ids of a rootCar are only ever appended to, in that order, and the
\* list bound by an upload is the file archive ids in that order followed by
\* the directory archive ids in traversal order.
C15_AppendOrder ==
    [][/\ \A i \in DOMAIN heap :
             /\ IsPrefix(heap[i].carCids, heap'[i].carCids)
             /\ IsPrefix(heap[i].added, heap'[i].added)
             /\ IsSubsequence(FileCarsOf(heap'[i].added), heap'[i].carCids)
       /\ \A u \in uploads' : FilesThenDirs(u)]_vars

\* C16: a temporary file exists only while the SaveData call that created it
\* is between toFile and its return; the file of storeDir is gone when
\* storeDir returns. No file is left after a return, whatever failed.
C16_TempFilesDeleted ==
    \A f \in tmpFiles :
        /\ f.kind \in {"w3s-raw", "w3s-car"}
        /\ call[f.owner].kind = "SaveData"
        /\ pc[f.owner] \in {"packCar", "storeCar", "addFileLock", "addFile"}

\* A SaveData has returned an error while the temporary files of another
\* SaveData exist, and an earlier Publish has run storeDir.
C16_Witness ==
    \E t, u \in Threads :
        /\ pc[t] = "idle" /\ ret[t].kind = "SaveData" /\ ret[t].err
        /\ tmpFiles = {RawFile(u), CarFile(u)}
        /\ \E i \in DOMAIN heap : heap[i].walked

\* Where a goroutine is about to do external I/O (copy, ipfs-car, w3 store,
\* w3 upload) or an operation on a block service.
IOStates == {"toFile", "packCar", "storeCar", "addFile", "storeDir", "upload"}

\* C17: the goroutine holding dataToPublishMu is inside getRootCar or
\* deleteRootCar, never at external I/O or a block service operation.
C17_RegistryLockScope ==
    dataToPublishMu # NoThread =>
        /\ pc[dataToPublishMu] \in {"getRootCar", "deleteRootCar"}
        /\ pc[dataToPublishMu] \notin IOStates

\* One goroutine holds dataToPublishMu while another is at storeDir or upload.
C17_Witness ==
    \E t, u \in Threads :
        /\ dataToPublishMu = t
        /\ pc[u] \in {"storeDir", "upload"}

\* C18: a registered rootCar leaves the registry, or is replaced in it, only
\* in the return of a Publish on its pubId, and while it is registered its
\* additions and archive ids are only added to.
C18_NoEviction ==
    [][\A b \in Campaigns :
          dataToPublish[b] # NoCar =>
              \/ /\ dataToPublish'[b] = dataToPublish[b]
                 /\ IsPrefix(heap[dataToPublish[b]].added, heap'[dataToPublish[b]].added)
                 /\ IsPrefix(heap[dataToPublish[b]].carCids, heap'[dataToPublish[b]].carCids)
              \/ /\ dataToPublish'[b] = NoCar
                 /\ \E t \in Threads : /\ PublishReturns(t)
                                       /\ call[t].kind = "Publish"
                                       /\ call[t].pubId = b]_vars

\* A rootCar holding a file is registered after an EndSession and a failed
\* SaveData have returned.
C18_Witness ==
    \E b \in Campaigns, t, u \in Threads :
        /\ dataToPublish[b] # NoCar
        /\ heap[dataToPublish[b]].added # <<>>
        /\ pc[t] = "idle" /\ ret[t].kind = "EndSession"
        /\ pc[u] = "idle" /\ ret[u].kind = "SaveData" /\ ret[u].err

\* C19: SaveRetried calls sess.SaveData at most retryCount times and stops
\* at the first call that returns no error, returning that call's output
\* with a nil error; when all retryCount calls fail it returns the last
\* call's error; with retryCount < 1 it makes no call and returns an error.
C19_SaveRetried ==
    sr.pc # "idle" =>
        LET n == Len(sr.calls) IN
        /\ sr.retryCount < 1 => n = 0 /\ sr.pc = "done" /\ sr.ret.err # "nil"
        /\ sr.retryCount >= 1 =>
            /\ n <= sr.retryCount
            /\ \A k \in 1 .. n - 1 : sr.calls[k].err # "nil"
            /\ sr.pc = "done" =>
                /\ n >= 1
                /\ sr.calls[n].err = "nil" => sr.ret = sr.calls[n]
                /\ sr.calls[n].err # "nil" =>
                    n = sr.retryCount /\ sr.ret.err = sr.calls[n].err

\* SaveRetried has returned the output of a call that succeeded after a
\* failed one, with a call to spare.
C19_Witness ==
    /\ sr.pc = "done"
    /\ sr.retryCount > Len(sr.calls)
    /\ Len(sr.calls) = 2
    /\ sr.calls[1].err # "nil"
    /\ sr.calls[2].err = "nil"
    /\ sr.ret = sr.calls[2]
    /\ sr.ret.out # "nil"

\* The reads made for the task of index i.
ReadsOf(i) == { k \in DOMAIN prf.reads : prf.reads[k].res.index = i }

\* C20: ParallelReadFiles returns results positionally: the i-th returned
\* FileInfoReader and the i-th returned byte slice are the result of
\* reading filesNames[i], in whatever order the workers complete, and each
\* listed file name is read exactly once (once for each place it has in the
\* list).
C20_PositionalResults ==
    prf.pc # "idle" =>
        /\ \A i \in 1 .. Len(prf.filesNames) : Cardinality(ReadsOf(i)) <= 1
        /\ prf.pc = "done" =>
            /\ Len(prf.firs) = Len(prf.filesNames)
            /\ Len(prf.data) = Len(prf.filesNames)
            /\ Len(prf.reads) = Len(prf.filesNames)
            /\ \A i \in 1 .. Len(prf.filesNames) :
                \E k \in ReadsOf(i) :
                    /\ ReadsOf(i) = { k }
                    /\ prf.reads[k].fileName = prf.filesNames[i]
                    /\ prf.firs[i] = prf.reads[k].res.fileInfo
                    /\ prf.data[i] = prf.reads[k].res.data

\* ParallelReadFiles has returned the bytes of two different files, the
\* second of which was read and received first.
C20_Witness ==
    /\ prf.pc = "done"
    /\ Len(prf.filesNames) = 2
    /\ prf.filesNames[1] # prf.filesNames[2]
    /\ prf.arrived = << 2, 1 >>
    /\ prf.data[1] = << prf.filesNames[1], "x" >>
    /\ prf.data[2] = << prf.filesNames[2], "y" >>
    /\ prf.firs[1] = << "info", prf.filesNames[1] >>

\* The lookups a traversal made on the links of the directory at path q.
LookupsIn(log, q) ==
    SelectSeq(log, LAMBDA e : /\ e.kind = "lookup"
                              /\ Len(e.path) = Len(q) + 1
                              /\ IsPrefix(q, e.path))

\* The archive stores a traversal made of the directory at path q.
StoresOf(log, q) ==
    SelectSeq(log, LAMBDA e : e.kind = "store" /\ e.outcome = "stored" /\ e.path = q)

\* What the claim makes of a looked up link: the link as it is when the
\* lookup failed, the link returned for the rewritten subtree otherwise.
Discriminated(log, e) ==
    IF e.outcome = "found" THEN StoresOf(log, e.path)[1].link ELSE e.link

\* C21: in the storeDir traversal a link whose target resolves in the block
\* service is taken for a directory, recursed into and replaced by a link of
\* the same name to the id of the rewritten subtree; a link whose lookup
\* fails is taken for a file and kept with its name and target.
C21_Discrimination ==
    \A t \in Threads :
        \A k \in DOMAIN walk[t].log :
            LET log == walk[t].log
                e == log[k]
                before == SubSeq(log, 1, k - 1)
                ls == LookupsIn(before, e.path)
            IN  (e.kind = "store" /\ e.outcome = "stored") =>
                    /\ \A j \in DOMAIN ls :
                          ls[j].outcome = "found" =>
                              /\ Len(StoresOf(before, ls[j].path)) = 1
                              /\ StoresOf(before, ls[j].path)[1].link.name = ls[j].link.name
                    /\ DagGet(e.link.cid)
                         = SortLinks([j \in DOMAIN ls |-> Discriminated(before, ls[j])])

\* A traversal has returned to Publish after it found, in the root, a link
\* that resolved and a link that did not, and rewrote the directory.
C21_Witness ==
    \E t \in Threads :
        /\ pc[t] = "upload"
        /\ LET ls == LookupsIn(walk[t].log, <<>>) IN
           /\ \E j \in DOMAIN ls : ls[j].outcome = "found"
           /\ \E j \in DOMAIN ls : ls[j].outcome = "notFound"
           /\ \E j \in DOMAIN ls :
                 /\ ls[j].outcome = "found"
                 /\ StoresOf(walk[t].log, ls[j].path)[1].link.cid # ls[j].link.cid

\* Event k of the log is the store of the archive of a directory, every
\* directory the traversal had entered below it has had its archive stored
\* before, after it was entered, and no store had failed.
StoredAfterDescendants(log, k) ==
    /\ log[k].kind = "store"
    /\ \A j \in 1 .. k - 1 :
          /\ log[j].outcome # "storeFailed"
          /\ ( /\ log[j].outcome = "found"
                /\ IsPrefix(log[k].path, log[j].path)
                /\ log[j].path # log[k].path ) =>
                \E m \in j + 1 .. k - 1 :
                    /\ log[m].outcome = "stored"
                    /\ log[m].path = log[j].path

\* The traversal is over and went well: its last event is the store of the
\* root's archive, after the archives of all the directories it entered.
TraversalDone(log) ==
    /\ log # <<>>
    /\ log[Len(log)].outcome = "stored"
    /\ log[Len(log)].path = <<>>
    /\ StoredAfterDescendants(log, Len(log))
    /\ \A j \in 1 .. Len(log) - 1 : ~(log[j].kind = "store" /\ log[j].path = <<>>)

\* C22: storeDir is a post-order traversal: the archive of a directory is
\* stored after those of all the directories entered below it, the root's
\* archive is stored last, and w3UploadCar is called only after every one of
\* these stores succeeded, never after a failed one.
C22_PostOrder ==
    [][\A t \in Threads :
          /\ \A k \in DOMAIN walk'[t].log :
                walk'[t].log[k].kind = "store" => StoredAfterDescendants(walk'[t].log, k)
          /\ pc'[t] = "upload" => TraversalDone(walk'[t].log)
          /\ (pc[t] = "upload" /\ pc'[t] # "upload") =>
                /\ TraversalDone(walk[t].log)
                /\ Len(local[t].dirCars)
                     = Cardinality({ k \in DOMAIN walk[t].log : walk[t].log[k].kind = "store" })
                /\ Range(local[t].dirCars) \subseteq stored
                /\ Range(local[t].dirCars) \subseteq Range(local[t].carCids)]_vars

\* An upload has been bound after the archives of a/a, a and the root were
\* stored, in this order.
C22_Witness ==
    \E t \in Threads :
        /\ pc[t] = "deleteRootCar"
        /\ local[t].outcome = "published"
        /\ LET st == SelectSeq(walk[t].log, LAMBDA e : e.kind = "store") IN
           /\ Len(st) = 3
           /\ st[1].path = << <<"a">>, <<"a">> >>
           /\ st[2].path = << <<"a">> >>
           /\ st[3].path = << >>

\* Goroutine t looks up a link in this step and GetNode returns an error
\* other than ErrNotFound.
LookupFails(t) ==
    /\ Len(walk'[t].log) = Len(walk[t].log) + 1
    /\ walk'[t].log[Len(walk'[t].log)].outcome = "failed"

\* C23: in the storeDir traversal only a lookup that finds nothing makes a
\* link a file link: when the lookup fails otherwise the traversal ends
\* there with an error, the link is not passed through, and nothing is
\* bound that holds a link the traversal could not look up.
C23_StoreFailurePropagated ==
    [][\A t \in Threads :
          /\ LookupFails(t) =>
                /\ walk'[t].stack = <<>>
                /\ pc'[t] = "deleteRootCar"
                /\ local'[t].outcome = "storeDirFailed"
          /\ pc'[t] = "upload" =>
                \A k \in DOMAIN walk'[t].log : walk'[t].log[k].outcome # "failed"]_vars

\* The proper prefixes of a directory path: the directories above the one
\* the file is linked in.
Above(path) == { SubSeq(path, 1, k) : k \in 0 .. Len(path) - 1 }

\* C24: after a successful addFile along a directory path, every directory
\* above the insertion point is in the block service under its new id, and
\* the id it was stored under before the call is no longer a key of it,
\* whether its child on the path existed or was created by this call.
C24_StaleEntryReplaced ==
    [][\A t \in Threads :
          AddFileSucceeds(t) =>
              LET rc == heap[rCar[t]]
                  rc2 == heap'[rCar[t]]
              IN  \A q \in Above(FieldsFunc(call[t].dirPath)) :
                      LET before == Resolve(rc.root, rc.dag, q)
                          after == Resolve(rc2.root, rc2.dag, q)
                      IN  /\ after.ok
                          /\ Cid(after.node) \in rc2.dag
                          /\ (before.ok /\ Cid(before.node) \in rc.dag)
                                => Cid(before.node) \notin rc2.dag]_vars

\* The positions of SaveData in the order of its steps.
SaveDataOrder ==
    [toFile |-> 1, packCar |-> 2, storeCar |-> 3, addFileLock |-> 4, addFile |-> 5]

\* Goroutine t is in SaveData before the step, and takes the step.
SaveDataStep(t) == pc[t] \in DOMAIN SaveDataOrder /\ pc'[t] # pc[t]

\* C25: SaveData writes the input to a temporary file, packs the file
\* archive, stores it remotely and only then adds the link to the rootCar of
\* the pubId; when packing or storing fails it returns an error and the
\* registry and every rootCar (root, archive ids) are as before: no rootCar
\* is created, no archive id appended.
C25_SaveDataOrder ==
    [][\A t \in Threads :
          /\ (pc[t] = "idle" /\ pc'[t] # "idle" /\ call'[t].kind = "SaveData") =>
                pc'[t] = "toFile" /\ UNCHANGED << dataToPublish, heap, stored >>
          /\ SaveDataStep(t) =>
                /\ \/ pc'[t] = "idle"
                   \/ /\ pc'[t] \in DOMAIN SaveDataOrder
                      /\ SaveDataOrder[pc'[t]] = SaveDataOrder[pc[t]] + 1
                /\ pc[t] \in {"toFile", "packCar"} =>
                      UNCHANGED << dataToPublish, heap, stored >>
                /\ (pc[t] = "storeCar" /\ pc'[t] = "idle") =>
                      /\ ret'[t].err
                      /\ UNCHANGED << dataToPublish, heap, stored >>
                /\ (pc[t] = "storeCar" /\ pc'[t] # "idle") =>
                      /\ FileCar(call[t].fileCid) \in stored'
                      /\ \A i \in DOMAIN heap : heap'[i] = heap[i]
                /\ pc[t] = "addFile" =>
                      /\ FileCar(call[t].fileCid) \in stored
                      /\ {RawFile(t), CarFile(t)} \subseteq tmpFiles
                /\ (pc'[t] = "idle" /\ pc[t] # "addFile") => ret'[t].err]_vars

\* A SaveData has returned the error of toFile, packCar or w3StoreCar while
\* the registry holds a rootCar with the file of an earlier SaveData.
C25_Witness ==
    \E t \in Threads, p \in PubIds :
        /\ pc[t] = "idle" /\ ret[t].kind = "SaveData" /\ ret[t].err
        /\ tmpFiles = {}
        /\ dataToPublish[p] # NoCar
        /\ Len(heap) = 1
        /\ Len(heap[dataToPublish[p]].added) = 1
        /\ Len(heap[dataToPublish[p]].carCids) = 1
        /\ nOps = 2

\* C26: addFile is all-or-nothing: when it returns an error the root and its
\* links, the nodes of the block service and the archive ids of the rootCar
\* are as they were before the call.
C26_AddFileAllOrNothing ==
    [][\A t \in Threads :
          (AddFileReturns(t) /\ ret'[t].err) =>
              /\ heap'[rCar[t]].root = heap[rCar[t]].root
              /\ heap'[rCar[t]].dag = heap[rCar[t]].dag
              /\ heap'[rCar[t]].carCids = heap[rCar[t]].carCids]_vars

\* C27: Publish releases rCar.mu on every return, also when storeDir failed:
\* once a Publish has returned, the lock of the rootCar it worked on is not
\* held by its goroutine, so that an addFile waiting for it can go on.
C27_PublishUnlocks ==
    [][\A t \in Threads :
          PublishReturns(t) => heap'[rCar[t]].mu # t]_vars

\* rootCar i is the one registered for a pubId.
Registered(i) == \E p \in Campaigns : dataToPublish[p] = i

\* The addition a is among the files of the tree of a bound upload.
Bound(a) == \E u \in uploads : \E k \in DOMAIN u.files : u.files[k] = a

\* No file of a successful SaveData is in neither a bound tree nor the
\* registered rootCar.
NoFileDropped ==
    \A i \in DOMAIN heap :
        \A k \in DOMAIN heap[i].added : Registered(i) \/ Bound(heap[i].added[k])

\* C28: under every interleaving of SaveData and Publish on a pubId, a file
\* whose SaveData returned success is in the tree bound by a Publish or
\* linked in the rootCar registered for the pubId, and no SaveData reports
\* success for a file it added to a rootCar that a Publish had traversed.
C28_NoDroppedFile ==
    [][/\ NoFileDropped'
       /\ \A t \in Threads :
             (AddFileReturns(t) /\ ~ret'[t].err) => ~heap[rCar[t]].walked]_vars

\* Goroutine t calls SaveData in this step and gets as far as getRootCar.
SaveDataRegisters(t, p) ==
    pc[t] = "idle" /\ call'[t].kind = "SaveData" /\ call'[t].pubId = p

\* C29: a rootCar is created only by a file addition: the registry gains an
\* entry for a pubId only in the first SaveData for it; a Publish for a pubId
\* with no registered rootCar creates none and neither stores nor binds an
\* empty directory.
C29_CreatedByAddition ==
    [][/\ \A p \in Campaigns :
             (dataToPublish[p] = NoCar /\ dataToPublish'[p] # NoCar)
                 => \E t \in Threads : SaveDataRegisters(t, p)
       /\ Len(heap') > Len(heap) => \E t \in Threads : call'[t].kind = "SaveData"
       /\ \A a \in stored' : a.root # Cid(newDir)
       /\ \A u \in uploads' : u.root # Cid(newDir)]_vars

\* The orders a sequence of additions can be applied in.
Orders(files) ==
    { [k \in DOMAIN files |-> files[f[k]]] :
        f \in { g \in [DOMAIN files -> DOMAIN files] :
                  \A j, k \in DOMAIN files : g[j] = g[k] => j = k } }

\* The additions applied one after the other to a rootCar: its root and its
\* block service afterwards, and whether an addFile returned an error.
RECURSIVE AddAll(_, _)
AddAll(files, st) ==
    IF files = <<>> THEN st
    ELSE LET a == Head(files)
             r == addFileToNode(st.root, st.dag, a.dir, a.name, a.cid)
         IN  AddAll(Tail(files), [root |-> IF r.err THEN r.self ELSE r.node,
                                  dag |-> r.dag,
                                  err |-> st.err \/ r.err])

\* Applied in the order of files to a new rootCar, the additions all succeed
\* and give the root id that rc has. A root id holds the ids of the linked
\* directories, and these the ids of theirs: equal root ids are equal ids at
\* every directory path.
SameTree(rc, files) ==
    LET r == AddAll(files, [root |-> newDir, dag |-> {}, err |-> FALSE]) IN
    /\ ~r.err
    /\ Cid(r.root) = Cid(rc.root)

\* C30: for file additions at pairwise distinct full paths, the root id of
\* the rootCar and the id of every directory are the same for every order
\* the addFile calls are applied in.
C30_OrderIndependence ==
    \A i \in DOMAIN heap :
        LET rc == heap[i] IN
        (OnlyAdded(rc) /\ DistinctPaths(rc.added)) =>
            \A files \in Orders(rc.added) : SameTree(rc, files)

\* C31: no goroutine holds dataToPublishMu and the mu of the rootCar it works
\* on at the same time: in SaveData and in Publish, the deferred
\* deleteRootCar included, each is released before the other is acquired.
C31_LockOrdering ==
    \A t \in Threads :
        dataToPublishMu = t => ~(rCar[t] # NoCar /\ heap[rCar[t]].mu = t)

\* C32: a call of ParallelReadFiles whose ReadData calls all return
\* eventually returns, whatever the list of file names and the number of
\* jobs, zero and negative numbers and a cancelled context included.
C32_Terminates == (prf.pc = "dispatch") ~> (prf.pc = "done")

\* The workers that are inside sess.ReadData or ioutil.ReadAll.
InFlight == { w \in DOMAIN prf.worker : prf.worker[w].pc = "read" }

\* min(workers, len(filesNames)), and no job at all when that is negative.
Jobs ==
    LET m == IF prf.workers < Len(prf.filesNames) THEN prf.workers
             ELSE Len(prf.filesNames)
    IN  IF m < 0 THEN 0 ELSE m

\* At no time are more reads in flight than there are jobs.
JobsBound == prf.pc # "idle" => Cardinality(InFlight) <= Jobs

\* C33: at most min(workers, len(filesNames)) ReadData calls are in flight at
\* any time, and once ParallelReadFiles has returned with a context that is
\* not cancelled, every worker goroutine it started has returned.
C33_JobsAndNoLeakedWorker ==
    /\ JobsBound
    /\ (prf.pc = "done" /\ ~prf.cancelled) =>
          \A w \in DOMAIN prf.worker : prf.worker[w].pc = "exited"

\* ParallelReadFiles has returned: its error is non-nil exactly when a read
\* failed, the entries of a failed read are nil and those of a successful
\* read are the file's info and bytes.
ErrorsReported ==
    prf.pc = "done" =>
        /\ (prf.err # "nil") <=> (\E k \in DOMAIN prf.reads : prf.reads[k].res.err # "nil")
        /\ \A k \in DOMAIN prf.reads :
              LET res == prf.reads[k].res IN
              /\ res.err # "nil" =>
                    /\ prf.firs[res.index] = NilRead
                    /\ prf.data[res.index] = NilRead
              /\ res.err = "nil" =>
                    /\ prf.firs[res.index] = <<"info", prf.filesNames[res.index]>>
                    /\ prf.data[res.index] = res.data
                    /\ prf.data[res.index] # NilRead

\* A worker that has sent the result of a read, failed or not, is at its
\* select again.
WorkerServesOn ==
    \A w \in 1 .. MaxWorkers :
        (/\ prf.pc # "idle"
         /\ w \in DOMAIN prf.worker
         /\ prf.worker[w].pc = "read"
         /\ prf'.worker[w].pc # "read") => prf'.worker[w].pc = "select"

\* C34: ParallelReadFiles returns a non-nil error if and only if the read of
\* at least one file failed; a failed read leaves the info and data entries
\* of its index nil while those of the files read are filled in, and a worker
\* that reports a failed read serves further tasks.
C34_ErrorReporting == [] ErrorsReported /\ [][WorkerServesOn]_vars

\* The only worker failed on the first file and read the second, and
\* ParallelReadFiles returned the error with the second file's entries.
C34_Witness ==
    /\ prf.pc = "done"
    /\ prf.workersToStart = 1
    /\ Len(prf.reads) = 2
    /\ prf.reads[1].res.err # "nil"
    /\ prf.reads[2].res.err = "nil"
    /\ prf.err # "nil"
    /\ prf.firs[prf.reads[1].res.index] = NilRead
    /\ prf.data[prf.reads[2].res.index] # NilRead

\* The sessions in use: registered for their path or held by a goroutine that
\* got it from NewSession, and not ended.
LiveSessions ==
    { i \in DOMAIN fs.session :
        /\ ~fs.session[i].ended
        /\ \/ fs.sessions[fs.session[i].path] = i
           \/ \E t \in Threads : fs.call[t].sess = i }

\* At most one live session for a path.
OneLiveSessionPerPath ==
    \A i, j \in LiveSessions : fs.session[i].path = fs.session[j].path => i = j

\* NewSession(path) returns the session registered for path when there is
\* one, and otherwise a new session, which it registers.
NewSessionReturnsRegistered ==
    \A t \in Threads :
        (fs.call[t].pc = "NewSession" /\ fs'.call[t].pc = "idle") =>
            LET path == fs.call[t].path IN
            IF fs.sessions[path] # NoSession
            THEN /\ fs'.call[t].ret = fs.sessions[path]
                 /\ fs'.session = fs.session
                 /\ fs'.sessions = fs.sessions
            ELSE /\ fs'.call[t].ret = Len(fs.session) + 1
                 /\ fs'.session = Append(fs.session, NewFSSession(path))
                 /\ fs'.sessions = [ fs.sessions EXCEPT ![path] = Len(fs.session) + 1 ]

\* EndSession leaves its critical section with the session ended and its
\* cache empty, and returns with no session registered for the path; an ended
\* session stays ended, and only NewSession registers a session.
EndSessionEnds ==
    /\ \A t \in Threads :
          /\ (fs.call[t].pc = "EndSession" /\ fs'.call[t].pc # "EndSession") =>
                /\ fs'.session[fs.call[t].sess].ended
                /\ fs'.session[fs.call[t].sess].dCache = {}
          /\ (fs.call[t].pc = "EndSessionDelete" /\ fs'.call[t].pc = "idle") =>
                /\ fs.session[fs.call[t].sess].ended
                /\ fs'.sessions[fs.session[fs.call[t].sess].path] = NoSession
    /\ \A i \in DOMAIN fs.session : fs.session[i].ended => fs'.session[i].ended
    /\ \A path \in FsPaths :
          (fs.sessions[path] = NoSession /\ fs'.sessions[path] # NoSession) =>
              \E t \in Threads : /\ fs.call[t].pc = "NewSession"
                                 /\ fs.call[t].path = path
                                 /\ fs'.call[t].pc = "idle"

\* No goroutine holds the dLock of a session and the lock of the driver.
EndSessionLocksApart ==
    \A t \in Threads :
        fs.lock = t => \A i \in DOMAIN fs.session : fs.session[i].dLock # t

\* C35: NewSession(path) returns the session registered for the path, or
\* registers and returns a new one, so that at most one live session exists
\* for a path; EndSession leaves the session ended with an empty cache and
\* the path with no session until NewSession is called again; EndSession
\* never holds the session's dLock and the driver's lock together.
C35_SessionRegistry ==
    /\ [] OneLiveSessionPerPath
    /\ [][NewSessionReturnsRegistered]_vars
    /\ [][EndSessionEnds]_vars
    /\ [] EndSessionLocksApart

====
